---------------------------- MODULE Spec2Model ----------------------------
(***************************************************************************)
(* A model of spend-pulse's pace-tracking engine (src/src/vault.ts): the   *)
(* monthly ledger and its merge, the cumulative spend curve, the           *)
(* expected-spend baseline, the summary and the legacy migration; and of   *)
(* the commands check, status, recent and sync (src/src/commands) that     *)
(* read and write the data directory, one after the other and overlapping. *)
(*                                                                         *)
(* Conventions of the model                                                *)
(*  - a date string "YYYY-MM-DD" is the integer YYYYMMDD: for well-formed  *)
(*    dates String.localeCompare orders the strings as < orders the        *)
(*    integers, and the text after the second '-' is the last two digits;  *)
(*  - a month string "YYYY-MM" is the integer YYYYMM;                      *)
(*  - an amount is an integer number of mills (1/1000 of a currency unit), *)
(*    so that rounding to two decimals is a real operation; arithmetic is  *)
(*    exact (the binary floating point error of the source is not          *)
(*    modelled);                                                           *)
(*  - an optional field that is absent holds Undefined; the boolean field  *)
(*    pending holds "true", "false" or Undefined;                          *)
(*  - new Date() is the logical clock `clock` where it is a timestamp and  *)
(*    the date `today` where it is a calendar day; the local time zone is  *)
(*    `zone`: "UTC" (no offset, or one west of UTC, which the dates of the *)
(*    source read the same) or "east" (ahead of UTC);                      *)
(*  - a percentage is an integer number of tenths of a percent.            *)
(***************************************************************************)
EXTENDS Integers, Sequences, FiniteSets, TLC

VARIABLES
    ledger,     \* the MonthlyData of one month, as stored
    clock,      \* logical time: the number of operations run so far
    call,       \* the last operation: its name, inputs and outputs
    curve,      \* the cumulative spend curve last built from the ledger
    pace,       \* the expected-spend computation: its inputs and its result
    summary,    \* the summary computation: its inputs and its result
    vault,      \* the files of the data directory a command reads and writes
    today,      \* the date a command reads from the system clock
    zone,       \* the local time zone of the process
    running,    \* the invocations in progress on the data directory
    out         \* what the last command printed

vars == <<ledger, clock, call, curve, pace, summary, vault, today, zone, running,
          out>>

\* The state of the commands.
cliVars == <<vault, today, zone, running, out>>

\* ------------------------------------------------------------------ bounds

\* The longest incoming batch of one merge.
MaxBatch == 2

\* The number of operations of one behaviour.
MaxClock == 2

\* The most transactions of a ledger a curve is built from.
MaxCurveTx == 2

\* The most transactions of the prior month's ledger behind a pace baseline.
MaxPriorTx == 1

\* The most transactions of a ledger a summary is computed from.
MaxSummaryTx == 1

\* The most transactions of a month's ledger that recent reads.
MaxRecentTx == 1

\* The longest legacy transaction log.
MaxLegacyTx == 2

\* The number of commands run one after the other on one data directory.
MaxRuns == 2

\* ------------------------------------------------------------- data model

Undefined == "undefined"

\* "YYYY-MM-DD" for a year, a month and a day.
DateStr(y, m, d) == y * 10000 + m * 100 + d

\* A Transaction: types Transaction plus the optional pending fields that
\* runSync fills in.
Transaction(id, date, amount, merchant, category, pending, pid) ==
    [id |-> id, date |-> date, amount |-> amount, merchant |-> merchant,
     category |-> category, pending |-> pending,
     pending_transaction_id |-> pid]

\* JavaScript truthiness of an optional field.
Truthy(v) == v \notin {Undefined, "false", ""}

\* The MonthlyData runSync starts from when no file exists for the month.
NewMonthlyData(month, now) ==
    [month |-> month, last_sync |-> now, last_check |-> Undefined,
     transactions |-> <<>>]

\* The ids of a transaction list: new Set(list.map(t => t.id)).
IdsOf(txs) == {txs[i].id : i \in 1..Len(txs)}

\* Array.prototype.filter keeping the transactions whose id is not in ids.
RECURSIVE FilterOutIds(_, _)
FilterOutIds(txs, ids) ==
    IF txs = <<>> THEN <<>>
    ELSE LET rest == FilterOutIds(Tail(txs), ids)
         IN  IF Head(txs).id \in ids THEN rest ELSE <<Head(txs)>> \o rest

\* One step of a stable sort by date descending: t goes after every element
\* whose date is greater than or equal to its own.
InsertByDateDesc(sorted, t) ==
    LET k == Cardinality({i \in 1..Len(sorted) : sorted[i].date >= t.date})
    IN  SubSeq(sorted, 1, k) \o <<t>> \o SubSeq(sorted, k + 1, Len(sorted))

\* A sort that is not stable: t goes before the elements of its own date.
InsertByDateDescUnstable(sorted, t) ==
    LET k == Cardinality({i \in 1..Len(sorted) : sorted[i].date > t.date})
    IN  SubSeq(sorted, 1, k) \o <<t>> \o SubSeq(sorted, k + 1, Len(sorted))

RECURSIVE SortByDateDescUnstable(_)
SortByDateDescUnstable(txs) ==
    IF txs = <<>> THEN <<>>
    ELSE InsertByDateDescUnstable(
             SortByDateDescUnstable(SubSeq(txs, 1, Len(txs) - 1)),
             txs[Len(txs)])

\* list.sort((a, b) => b.date.localeCompare(a.date)): Array.prototype.sort is
\* stable, so equal dates keep their order.
RECURSIVE SortByDateDesc(_)
SortByDateDesc(txs) ==
    IF txs = <<>> THEN <<>>
    ELSE InsertByDateDesc(SortByDateDesc(SubSeq(txs, 1, Len(txs) - 1)),
                          txs[Len(txs)])

\* The ids that posted transactions of the batch replace.
PendingIdsToRemove(newTransactions) ==
    {newTransactions[i].pending_transaction_id :
        i \in {j \in 1..Len(newTransactions) :
                 /\ Truthy(newTransactions[j].pending_transaction_id)
                 /\ ~Truthy(newTransactions[j].pending)}}

\* The stored transactions that stay: those no posted transaction replaces.
ExistingFiltered(monthlyData, newTransactions) ==
    FilterOutIds(monthlyData.transactions, PendingIdsToRemove(newTransactions))

\* The incoming transactions that are added: those whose id is not among the
\* stored transactions that stay.
ToAdd(monthlyData, newTransactions) ==
    FilterOutIds(newTransactions,
                 IdsOf(ExistingFiltered(monthlyData, newTransactions)))

\* The argument of a merge after the call, had the merge filtered and extended
\* the stored list in place.
InputAfterMergeInPlace(monthlyData, newTransactions) ==
    [monthlyData EXCEPT
        !.transactions = SortByDateDesc(ExistingFiltered(monthlyData, newTransactions)
                                        \o ToAdd(monthlyData, newTransactions))]

\* The object passed to addTransactionsToMonthlyData as monthlyData, after the
\* call: map, filter and the spreads build new arrays and a new object, and
\* sort orders the new array, so the argument is what it was.
InputAfterMerge(monthlyData, newTransactions) == monthlyData

\* addTransactionsToMonthlyData(monthlyData, newTransactions), run at `now`.
addTransactionsToMonthlyData(monthlyData, newTransactions, now) ==
    LET existingFiltered == ExistingFiltered(monthlyData, newTransactions)
        toAdd   == ToAdd(monthlyData, newTransactions)
        removed == Len(monthlyData.transactions) - Len(existingFiltered)
        updated == [monthlyData EXCEPT
                       !.last_sync = now,
                       !.transactions = SortByDateDesc(existingFiltered \o toAdd)]
    IN  [added |-> Len(toAdd) - removed, updated |-> updated]

\* ---------------------------------------------------------- curve builder

\* new Date(year, monthNum, 0).getDate(): the length of the month.
DaysInMonth(year, monthNum) ==
    IF monthNum = 2
    THEN IF (year % 4 = 0 /\ year % 100 # 0) \/ year % 400 = 0 THEN 29 ELSE 28
    ELSE IF monthNum \in {4, 6, 9, 11} THEN 30 ELSE 31

\* monthlyData.month.split('-').map(Number)
YearOf(month) == month \div 100
MonthNumOf(month) == month % 100

\* parseInt(t.date.split('-')[2], 10): the day of month of a date string.
DayOf(date) == date % 100

\* Math.round(x * 100) / 100 on an amount in mills: to the nearest cent, a
\* half rounding up.
Round2(x) == ((x + 5) \div 10) * 10

\* dailySpend.get(day) ?? 0: the sum of the amounts bucketed on the day.
RECURSIVE DailySpend(_, _)
DailySpend(txs, day) ==
    IF txs = <<>> THEN 0
    ELSE (IF DayOf(Head(txs).date) = day THEN Head(txs).amount ELSE 0)
         + DailySpend(Tail(txs), day)

\* The running total after the walk from day 1 to day d.
RECURSIVE Running(_, _)
Running(txs, d) ==
    IF d = 0 THEN 0 ELSE Running(txs, d - 1) + DailySpend(txs, d)

\* A curve that holds each day's own spend, not the running total.
DailyCurve(monthlyData) ==
    [d \in 1..DaysInMonth(YearOf(monthlyData.month), MonthNumOf(monthlyData.month))
        |-> Round2(DailySpend(monthlyData.transactions, d))]

\* buildCumulativeSpendCurve(monthlyData): day of month -> cumulative spend.
buildCumulativeSpendCurve(monthlyData) ==
    [d \in 1..DaysInMonth(YearOf(monthlyData.month), MonthNumOf(monthlyData.month))
        |-> Round2(Running(monthlyData.transactions, d))]

\* transactions.reduce((sum, t) => sum + t.amount, 0)
RECURSIVE Total(_)
Total(txs) == IF txs = <<>> THEN 0 ELSE Head(txs).amount + Total(Tail(txs))

\* summary.spending.total: Math.round(total * 100) / 100
SpendingTotal(monthlyData) == Round2(Total(monthlyData.transactions))

\* ------------------------------------------------------------ pace engine

\* A number that is a quotient of two integers, the denominator positive:
\* (dayOfMonth / daysInCurrentMonth) * monthlyTarget is not a whole number of
\* mills in general.
Rat(num, den) == [num |-> num, den |-> den]

\* The greatest common divisor of two naturals, not both 0.
RECURSIVE Gcd(_, _)
Gcd(a, b) == IF b = 0 THEN a ELSE Gcd(b, a % b)

\* A quotient in lowest terms.
Lowest(r) ==
    LET g == Gcd(IF r.num < 0 THEN -r.num ELSE r.num, r.den)
    IN  Rat(r.num \div g, r.den \div g)

\* The values of two quotients are equal.
RatEq(a, b) == Lowest(a) = Lowest(b)

\* A Map<number, number> | null argument.
NullCurve == [null |-> TRUE, map |-> <<>>]
CurveOf(map) == [null |-> FALSE, map |-> map]

\* Math.max(...lastMonthCurve.keys())
MaxKey(map) == CHOOSE k \in DOMAIN map : \A j \in DOMAIN map : j <= k

\* The linear ramp: (dayOfMonth / daysInCurrentMonth) * monthlyTarget.
LinearRamp(dayOfMonth, daysInCurrentMonth, monthlyTarget) ==
    [expected |-> Rat(dayOfMonth * monthlyTarget, daysInCurrentMonth),
     source |-> "linear"]

\* A baseline that falls back to the linear ramp past the curve's last day.
ExpectedNoClamp(dayOfMonth, daysInCurrentMonth, lastMonthCurve, monthlyTarget) ==
    IF lastMonthCurve.null \/ dayOfMonth \notin DOMAIN lastMonthCurve.map
    THEN LinearRamp(dayOfMonth, daysInCurrentMonth, monthlyTarget)
    ELSE [expected |-> Rat(lastMonthCurve.map[dayOfMonth], 1),
          source |-> "last_month"]

\* A baseline whose ramp counts the days elapsed before today.
ExpectedRampOffByOne(dayOfMonth, daysInCurrentMonth, lastMonthCurve, monthlyTarget) ==
    IF lastMonthCurve.null \/ DOMAIN lastMonthCurve.map = {}
    THEN LinearRamp(dayOfMonth - 1, daysInCurrentMonth, monthlyTarget)
    ELSE ExpectedNoClamp(dayOfMonth, daysInCurrentMonth, lastMonthCurve,
                         monthlyTarget)

\* A baseline that ignores the curve.
ExpectedAlwaysLinear(dayOfMonth, daysInCurrentMonth, lastMonthCurve, monthlyTarget) ==
    LinearRamp(dayOfMonth, daysInCurrentMonth, monthlyTarget)

\* getExpectedSpendFromCurve(dayOfMonth, daysInCurrentMonth, lastMonthCurve,
\* monthlyTarget)
getExpectedSpendFromCurve(dayOfMonth, daysInCurrentMonth, lastMonthCurve, monthlyTarget) ==
    IF lastMonthCurve.null \/ DOMAIN lastMonthCurve.map = {}
    THEN LinearRamp(dayOfMonth, daysInCurrentMonth, monthlyTarget)
    ELSE IF dayOfMonth \in DOMAIN lastMonthCurve.map
    THEN [expected |-> Rat(lastMonthCurve.map[dayOfMonth], 1),
          source |-> "last_month"]
    ELSE IF dayOfMonth > MaxKey(lastMonthCurve.map)
    THEN [expected |-> Rat(lastMonthCurve.map[MaxKey(lastMonthCurve.map)], 1),
          source |-> "last_month"]
    ELSE LinearRamp(dayOfMonth, daysInCurrentMonth, monthlyTarget)

\* --------------------------------------------------------- number helpers

\* a / b < c / d for b, d > 0, decided on the integer parts and then on the
\* remainders, so that no product is formed.
RECURSIVE FracLess(_, _, _, _)
FracLess(a, b, c, d) ==
    LET qa == a \div b
        qc == c \div d
        ra == a % b
        rc == c % d
    IN  IF qa # qc THEN qa < qc
        ELSE IF rc = 0 THEN FALSE
        ELSE IF ra = 0 THEN TRUE
        ELSE FracLess(d, rc, b, ra)

\* The quotient [q, r] (value q + r / d, 0 <= r < d) times the factors of fs,
\* one factor at a time.
RECURSIVE ScaleBy(_, _, _)
ScaleBy(qr, d, fs) ==
    IF fs = <<>> THEN qr
    ELSE ScaleBy([q |-> qr.q * Head(fs) + (qr.r * Head(fs)) \div d,
                  r |-> (qr.r * Head(fs)) % d],
                 d, Tail(fs))

\* Math.round(n * 1000 / d) for d > 0: a half rounds up.
RoundThousandths(n, d) ==
    LET qr == ScaleBy([q |-> n \div d, r |-> n % d], d, <<2, 5, 2, 5, 2, 5>>)
    IN  qr.q + (IF FracLess(qr.r, d, 1, 2) THEN 0 ELSE 1)

\* ---------------------------------------------------------------- summary

\* Math.round(x * 100) / 100 on a quotient of mills.
Round2Rat(r) == ((2 * r.num + 10 * r.den) \div (20 * r.den)) * 10

\* A percentage as the summary reports it, Math.round(p * 10) / 10: tenths of
\* a percent, or what a division by zero leaves in its place.
Percent(tenths) == [kind |-> "number", tenths |-> tenths]
NotFinite(kind) == [kind |-> kind, tenths |-> 0]

\* Math.round(((total / monthly_target) * 100) * 10) / 10
PercentUsed(total, target) ==
    IF target = 0
    THEN (IF total > 0 THEN NotFinite("Infinity")
          ELSE IF total < 0 THEN NotFinite("-Infinity")
          ELSE NotFinite("NaN"))
    ELSE IF target > 0 THEN Percent(RoundThousandths(total, target))
    ELSE Percent(RoundThousandths(-total, -target))

\* percentUsed > (dayOfMonth / daysInMonth) * 100 + 10, on the percentage
\* before it is rounded.
PercentUsedAbove(total, target, dayOfMonth, daysInMonth) ==
    IF target = 0 THEN total > 0
    ELSE IF target > 0
    THEN FracLess(100 * dayOfMonth + 10 * daysInMonth, daysInMonth,
                  100 * total, target)
    ELSE FracLess(100 * dayOfMonth + 10 * daysInMonth, daysInMonth,
                  -100 * total, -target)

\* The day of 'now' whenever the month number is the ledger's, whatever the
\* year.
DayOfMonthAnyYear(month, now) ==
    IF MonthNumOf(now \div 100) = MonthNumOf(month)
    THEN DayOf(now)
    ELSE DaysInMonth(YearOf(month), MonthNumOf(month))

\* now.getMonth() + 1 === monthNum && now.getFullYear() === year
\*     ? now.getDate() : daysInMonth
DayOfMonth(month, now) ==
    IF MonthNumOf(now \div 100) = MonthNumOf(month)
       /\ YearOf(now \div 100) = YearOf(month)
    THEN DayOf(now)
    ELSE DaysInMonth(YearOf(month), MonthNumOf(month))

\* paceDiff = total - expectedSpend, times the denominator of expectedSpend.
PaceDiffNum(total, expected) == total * expected.den - expected.num

\* A band whose edges belong to 'ahead' and 'behind'.
PaceStatusClosed(total, expected) ==
    IF ~FracLess(-expected.num, 20, PaceDiffNum(total, expected), 1)
    THEN "ahead"
    ELSE IF ~FracLess(PaceDiffNum(total, expected), 1, expected.num, 20)
    THEN "behind"
    ELSE "on_pace"

\* The 5% band: 'ahead' is tested first, 'behind' only when it fails.
PaceStatus(total, expected) ==
    IF FracLess(PaceDiffNum(total, expected), 1, -expected.num, 20)
    THEN "ahead"
    ELSE IF FracLess(expected.num, 20, PaceDiffNum(total, expected), 1)
    THEN "behind"
    ELSE "on_pace"

\* expectedSpend > 0 ? (paceDiff / expectedSpend) * 100 : 0, rounded to one
\* decimal: tenths of a percent.
PacePercentDiff(total, expected) ==
    IF expected.num > 0
    THEN RoundThousandths(PaceDiffNum(total, expected), expected.num)
    ELSE 0

\* A status whose 'watch' line is the pace line itself, without the 10 points.
BudgetStatusNoMargin(total, target, dayOfMonth, daysInMonth) ==
    IF total > target THEN "over"
    ELSE IF (IF target = 0 THEN total > 0
             ELSE IF target > 0
             THEN FracLess(100 * dayOfMonth, daysInMonth, 100 * total, target)
             ELSE FracLess(100 * dayOfMonth, daysInMonth, -100 * total, -target))
    THEN "watch"
    ELSE "on_track"

\* A status that is 'over' above 90% of the target.
BudgetStatusOverEarly(total, target, dayOfMonth, daysInMonth) ==
    IF FracLess(90 * target, 100, total, 1) THEN "over"
    ELSE IF PercentUsedAbove(total, target, dayOfMonth, daysInMonth)
    THEN "watch"
    ELSE "on_track"

\* 'over' is tested first, 'watch' only when it fails.
BudgetStatus(total, target, dayOfMonth, daysInMonth) ==
    IF total > target THEN "over"
    ELSE IF PercentUsedAbove(total, target, dayOfMonth, daysInMonth)
    THEN "watch"
    ELSE "on_track"

\* A summary whose status follows the pace: 'watch' whenever the spending is
\* behind the baseline and within the target.
computeSummaryStatusFromPace(monthlyData, settings, lastMonthCurve, now) ==
    LET daysInMonth == DaysInMonth(YearOf(monthlyData.month),
                                   MonthNumOf(monthlyData.month))
        dayOfMonth == DayOfMonth(monthlyData.month, now)
        total == Total(monthlyData.transactions)
        baseline == getExpectedSpendFromCurve(dayOfMonth, daysInMonth,
                                              lastMonthCurve,
                                              settings.monthly_target)
        expectedSpend == baseline.expected
        paceStatus == PaceStatus(total, expectedSpend)
        budget == BudgetStatus(total, settings.monthly_target, dayOfMonth,
                               daysInMonth)
    IN  [computed_at |-> now,
         period |-> [days_elapsed |-> dayOfMonth,
                     days_remaining |-> daysInMonth - dayOfMonth],
         spending |->
             [total |-> Round2(total),
              target |-> settings.monthly_target,
              remaining |-> Round2(settings.monthly_target - total),
              percent_used |-> PercentUsed(total, settings.monthly_target),
              daily_average |-> IF dayOfMonth > 0
                                THEN Round2Rat(Rat(total, dayOfMonth))
                                ELSE 0,
              projected_total |-> Round2(total)],
         pace |->
             [expected |-> Round2Rat(expectedSpend),
              actual |-> Round2(total),
              diff |-> Round2Rat(Rat(PaceDiffNum(total, expectedSpend),
                                     expectedSpend.den)),
              status |-> paceStatus,
              percent_diff |-> PacePercentDiff(total, expectedSpend),
              source |-> baseline.source],
         status |-> IF budget = "on_track" /\ paceStatus = "behind"
                    THEN "watch" ELSE budget]

\* computeSummaryFromMonthlyData(monthlyData, settings, lastMonthCurve), with
\* the 'now' it reads as an argument. Of the Summary it returns, the period's
\* start and end strings, top_categories and recent_transactions are left out.
computeSummaryFromMonthlyData(monthlyData, settings, lastMonthCurve, now) ==
    LET daysInMonth == DaysInMonth(YearOf(monthlyData.month),
                                   MonthNumOf(monthlyData.month))
        dayOfMonth == DayOfMonth(monthlyData.month, now)
        daysRemaining == daysInMonth - dayOfMonth
        total == Total(monthlyData.transactions)
        remaining == settings.monthly_target - total
        baseline == getExpectedSpendFromCurve(dayOfMonth, daysInMonth,
                                              lastMonthCurve,
                                              settings.monthly_target)
        expectedSpend == baseline.expected
    IN  [computed_at |-> now,
         period |-> [days_elapsed |-> dayOfMonth,
                     days_remaining |-> daysRemaining],
         spending |->
             [total |-> Round2(total),
              target |-> settings.monthly_target,
              remaining |-> Round2(remaining),
              percent_used |-> PercentUsed(total, settings.monthly_target),
              daily_average |-> IF dayOfMonth > 0
                                THEN Round2Rat(Rat(total, dayOfMonth))
                                ELSE 0,
              projected_total |-> Round2(total)],
         pace |->
             [expected |-> Round2Rat(expectedSpend),
              actual |-> Round2(total),
              diff |-> Round2Rat(Rat(PaceDiffNum(total, expectedSpend),
                                     expectedSpend.den)),
              status |-> PaceStatus(total, expectedSpend),
              percent_diff |-> PacePercentDiff(total, expectedSpend),
              source |-> baseline.source],
         status |-> BudgetStatus(total, settings.monthly_target, dayOfMonth,
                                 daysInMonth)]

\* ------------------------------------------------------ the data directory

\* The elements of a sequence.
Range(s) == {s[i] : i \in 1..Len(s)}

\* The date of toISOString() is the UTC date of the instant: for the present
\* instant it is taken as the local date `today`, and for a local midnight it
\* depends on the time zone (MonthStart, MonthEnd).

\* A file that does not exist, a value that is null.
Null == [null |-> TRUE]

\* settings.monthly_target of getDefaultConfig, in mills.
DefaultTarget == 8000000

\* getDefaultConfig(): of the configuration, the settings.
getDefaultConfig ==
    [plaid |-> [mode |-> "sandbox", items |-> <<>>],
     settings |-> [monthly_target |-> DefaultTarget]]

\* isLegacyConfig(config): the plaid section holds credentials.
isLegacyConfig(config) ==
    {"client_id", "secret", "access_token"} \cap DOMAIN config.plaid # {}

\* migrateConfig(legacyConfig): the configuration without the credentials,
\* with the item 'migrated-item' when the legacy one held an access token.
migrateConfig(legacyConfig) ==
    [plaid |-> [mode |-> "sandbox",
                items |-> IF "access_token" \in DOMAIN legacyConfig.plaid
                          THEN <<[item_id |-> "migrated-item"]>> ELSE <<>>],
     settings |-> legacyConfig.settings]

\* getConfigWithMigration(): the configuration it returns, or null, and the
\* data directory it leaves, whose config.yaml it rewrites when it migrates.
getConfigWithMigration(files) ==
    IF files.config = Null THEN [config |-> Null, files |-> files]
    ELSE IF isLegacyConfig(files.config)
    THEN LET newConfig == migrateConfig(files.config)
         IN  [config |-> newConfig, files |-> [files EXCEPT !.config = newConfig]]
    ELSE [config |-> files.config, files |-> files]

\* getPrimaryItem(config): config.plaid.items[0] ?? null
getPrimaryItem(config) ==
    IF config.plaid.items = <<>> THEN Null ELSE config.plaid.items[1]

\* getPreviousMonth(month)
getPreviousMonth(month) ==
    IF MonthNumOf(month) = 1
    THEN (YearOf(month) - 1) * 100 + 12
    ELSE month - 1

\* getCurrentMonth(): the month of a date.
getCurrentMonth(now) == now \div 100

\* The demo charges of getMockMonthlyData: the number of days before today,
\* the amount in mills, the merchant and the category of each.
MockCharge(n, daysAgo, amount, merchant, category) ==
    [id |-> n, daysAgo |-> daysAgo, amount |-> amount, merchant |-> merchant,
     category |-> category]

MockCharges ==
    << MockCharge("mock_001", 0, 47500, "Whole Foods Market", "Groceries"),
       MockCharge("mock_002", 1, 125000, "Amazon", "Shopping"),
       MockCharge("mock_003", 1, 85000, "Shell Gas Station", "Gas"),
       MockCharge("mock_004", 2, 156780, "Target", "Shopping"),
       MockCharge("mock_005", 3, 42000, "Chipotle", "Restaurants"),
       MockCharge("mock_006", 4, 89500, "Costco", "Groceries"),
       MockCharge("mock_007", 5, 220000, "Best Buy", "Electronics"),
       MockCharge("mock_008", 6, 35000, "Uber Eats", "Restaurants"),
       MockCharge("mock_009", 7, 1200000, "United Airlines", "Travel"),
       MockCharge("mock_010", 8, 450000, "Hilton Hotels", "Travel"),
       MockCharge("mock_011", 10, 175000, "Trader Joes", "Groceries"),
       MockCharge("mock_012", 12, 65000, "The Cheesecake Factory", "Restaurants"),
       MockCharge("mock_013", 14, 890000, "Apple Store", "Electronics"),
       MockCharge("mock_014", 16, 55000, "CVS Pharmacy", "Healthcare"),
       MockCharge("mock_015", 18, 320000, "Nordstrom", "Shopping"),
       MockCharge("mock_016", 20, 95000, "HEB", "Groceries"),
       MockCharge("mock_017", 22, 78000, "Netflix + Spotify + Apple", "Subscriptions"),
       MockCharge("mock_018", 24, 2500000, "Renovation Depot", "Home") >>

\* The demo charges dated from the 1st of the month to today, as transactions.
RECURSIVE MockTransactions(_, _)
MockTransactions(charges, now) ==
    IF charges = <<>> THEN <<>>
    ELSE LET c == Head(charges)
             rest == MockTransactions(Tail(charges), now)
         IN  IF c.daysAgo < DayOf(now)
             THEN <<Transaction(c.id, now - c.daysAgo, c.amount, c.merchant,
                                c.category, Undefined, Undefined)>> \o rest
             ELSE rest

\* getMockMonthlyData()
getMockMonthlyData(now, stamp) ==
    [NewMonthlyData(getCurrentMonth(now), stamp) EXCEPT
        !.transactions = MockTransactions(MockCharges, now)]

\* getMonthlyData(month): the stored ledger of the month, or null.
getMonthlyData(files, month) ==
    IF month \in DOMAIN files.ledgers THEN files.ledgers[month] ELSE Null

\* A save that keeps the stored transactions that the new data does not hold.
saveMonthlyDataKeeping(files, data) ==
    LET kept == IF data.month \in DOMAIN files.ledgers
                THEN FilterOutIds(files.ledgers[data.month].transactions,
                                  IdsOf(data.transactions))
                ELSE <<>>
        merged == [data EXCEPT !.transactions = data.transactions \o kept]
    IN  [files EXCEPT !.ledgers =
            [m \in DOMAIN files.ledgers \cup {data.month} |->
                IF m = data.month THEN merged ELSE files.ledgers[m]]]

\* saveMonthlyData(data): the data directory with the month's file rewritten.
saveMonthlyData(files, data) ==
    [files EXCEPT !.ledgers =
        [m \in DOMAIN files.ledgers \cup {data.month} |->
            IF m = data.month THEN data ELSE files.ledgers[m]]]

\* The last day of the month before the month of a date.
EndOfPreviousMonth(date) ==
    LET m == getPreviousMonth(date \div 100)
    IN  m * 100 + DaysInMonth(YearOf(m), MonthNumOf(m))

\* new Date(year, monthNum, 1).toISOString().split('T')[0]: the UTC date of
\* the local midnight that starts the month, which east of UTC is the day
\* before.
MonthStart(month, tz) ==
    IF tz = "east" THEN EndOfPreviousMonth(month * 100 + 1) ELSE month * 100 + 1

\* new Date(year, monthNum + 1, 0).toISOString().split('T')[0]: the UTC date
\* of the local midnight that starts the last day of the month.
MonthEnd(month, tz) ==
    LET last == month * 100 + DaysInMonth(YearOf(month), MonthNumOf(month))
    IN  IF tz = "east" THEN last - 1 ELSE last

\* legacyData.transactions.filter(t => t.date >= monthStart && t.date <= monthEnd)
RECURSIVE DatedBetween(_, _, _)
DatedBetween(txs, monthStart, monthEnd) ==
    IF txs = <<>> THEN <<>>
    ELSE (IF Head(txs).date >= monthStart /\ Head(txs).date <= monthEnd
          THEN <<Head(txs)>> ELSE <<>>)
         \o DatedBetween(Tail(txs), monthStart, monthEnd)

\* getOrCreateCurrentMonthData(): the ledger it returns and the data directory
\* it leaves, which holds the migrated ledger when the legacy log was read.
getOrCreateCurrentMonthData(files, now, stamp, tz) ==
    LET month == getCurrentMonth(now)
    IN  IF month \in DOMAIN files.ledgers
        THEN [data |-> files.ledgers[month], files |-> files]
        ELSE IF files.transactions # Null
        THEN LET newData ==
                     [NewMonthlyData(month, files.transactions.last_sync) EXCEPT
                         !.transactions =
                             DatedBetween(files.transactions.transactions,
                                          MonthStart(month, tz),
                                          MonthEnd(month, tz))]
             IN  [data |-> newData, files |-> saveMonthlyData(files, newData)]
        ELSE [data |-> NewMonthlyData(month, stamp), files |-> files]

\* updateMonthlyLastCheck(month)
updateMonthlyLastCheck(files, month, stamp) ==
    IF month \in DOMAIN files.ledgers
    THEN saveMonthlyData(files, [files.ledgers[month] EXCEPT !.last_check = stamp])
    ELSE files

\* ------------------------------------------------------------ the commands

\* Math.round of tenths of a percent, and of mills, to a whole number.
RoundTenths(tenths) == (tenths + 5) \div 10
RoundMills(mills) == (mills + 500) \div 1000

\* The budget below which the remaining amount is an alert: 500, in mills.
LowRemaining == 500000

\* One entry of the reasons list: the text of the reason, and the number the
\* text holds when it holds one.
Reason(kind, n) == [kind |-> kind, n |-> n]

\* The reasons in the order of a list that names the end of the month before
\* the remaining budget.
AlertReasonsReordered(s, newTransactionCount) ==
    (IF newTransactionCount > 0
     THEN <<Reason("new transactions", newTransactionCount)>> ELSE <<>>)
    \o (IF s.status = "watch" THEN <<Reason("spending pace elevated", 0)>>
        ELSE IF s.status = "over" THEN <<Reason("over budget", 0)>>
        ELSE <<>>)
    \o (IF s.pace.status = "behind" /\ s.pace.percent_diff > 100
        THEN <<Reason("% over pace", RoundTenths(s.pace.percent_diff))>>
        ELSE <<>>)
    \o (IF s.period.days_remaining <= 3 /\ s.period.days_remaining > 0
        THEN <<Reason("end of month approaching", 0)>> ELSE <<>>)
    \o (IF s.spending.remaining < LowRemaining /\ s.spending.remaining > 0
        THEN <<Reason("only $ remaining", RoundMills(s.spending.remaining))>>
        ELSE <<>>)
    \o (IF s.period.days_elapsed = 1
        THEN <<Reason("new month started", 0)>> ELSE <<>>)

\* The reasons of a list that holds the low-remaining reason whenever less
\* than 500 remains, overspent budgets included.
AlertReasonsNoFloor(s, newTransactionCount) ==
    (IF newTransactionCount > 0
     THEN <<Reason("new transactions", newTransactionCount)>> ELSE <<>>)
    \o (IF s.status = "watch" THEN <<Reason("spending pace elevated", 0)>>
        ELSE IF s.status = "over" THEN <<Reason("over budget", 0)>>
        ELSE <<>>)
    \o (IF s.pace.status = "behind" /\ s.pace.percent_diff > 100
        THEN <<Reason("% over pace", RoundTenths(s.pace.percent_diff))>>
        ELSE <<>>)
    \o (IF s.spending.remaining < LowRemaining
        THEN <<Reason("only $ remaining", RoundMills(s.spending.remaining))>>
        ELSE <<>>)
    \o (IF s.period.days_remaining <= 3 /\ s.period.days_remaining > 0
        THEN <<Reason("end of month approaching", 0)>> ELSE <<>>)
    \o (IF s.period.days_elapsed = 1
        THEN <<Reason("new month started", 0)>> ELSE <<>>)

\* The reasons of a list without the end-of-month reason.
AlertReasonsNoMonthEnd(s, newTransactionCount) ==
    (IF newTransactionCount > 0
     THEN <<Reason("new transactions", newTransactionCount)>> ELSE <<>>)
    \o (IF s.status = "watch" THEN <<Reason("spending pace elevated", 0)>>
        ELSE IF s.status = "over" THEN <<Reason("over budget", 0)>>
        ELSE <<>>)
    \o (IF s.pace.status = "behind" /\ s.pace.percent_diff > 100
        THEN <<Reason("% over pace", RoundTenths(s.pace.percent_diff))>>
        ELSE <<>>)
    \o (IF s.spending.remaining < LowRemaining /\ s.spending.remaining > 0
        THEN <<Reason("only $ remaining", RoundMills(s.spending.remaining))>>
        ELSE <<>>)
    \o (IF s.period.days_elapsed = 1
        THEN <<Reason("new month started", 0)>> ELSE <<>>)

\* The reasons of a list that reports a pace only when it is more than 20%
\* above the baseline.
AlertReasonsFarOverPace(s, newTransactionCount) ==
    (IF newTransactionCount > 0
     THEN <<Reason("new transactions", newTransactionCount)>> ELSE <<>>)
    \o (IF s.status = "watch" THEN <<Reason("spending pace elevated", 0)>>
        ELSE IF s.status = "over" THEN <<Reason("over budget", 0)>>
        ELSE <<>>)
    \o (IF s.pace.status = "behind" /\ s.pace.percent_diff > 200
        THEN <<Reason("% over pace", RoundTenths(s.pace.percent_diff))>>
        ELSE <<>>)
    \o (IF s.spending.remaining < LowRemaining /\ s.spending.remaining > 0
        THEN <<Reason("only $ remaining", RoundMills(s.spending.remaining))>>
        ELSE <<>>)
    \o (IF s.period.days_remaining <= 3 /\ s.period.days_remaining > 0
        THEN <<Reason("end of month approaching", 0)>> ELSE <<>>)
    \o (IF s.period.days_elapsed = 1
        THEN <<Reason("new month started", 0)>> ELSE <<>>)

\* The reasons list of checkCommand, from the summary and the count of new
\* transactions; percent_diff is in tenths of a percent, remaining in mills.
AlertReasons(s, newTransactionCount) ==
    (IF newTransactionCount > 0
     THEN <<Reason("new transactions", newTransactionCount)>> ELSE <<>>)
    \o (IF s.status = "watch" THEN <<Reason("spending pace elevated", 0)>>
        ELSE IF s.status = "over" THEN <<Reason("over budget", 0)>>
        ELSE <<>>)
    \o (IF s.pace.status = "behind" /\ s.pace.percent_diff > 100
        THEN <<Reason("% over pace", RoundTenths(s.pace.percent_diff))>>
        ELSE <<>>)
    \o (IF s.spending.remaining < LowRemaining /\ s.spending.remaining > 0
        THEN <<Reason("only $ remaining", RoundMills(s.spending.remaining))>>
        ELSE <<>>)
    \o (IF s.period.days_remaining <= 3 /\ s.period.days_remaining > 0
        THEN <<Reason("end of month approaching", 0)>> ELSE <<>>)
    \o (IF s.period.days_elapsed = 1
        THEN <<Reason("new month started", 0)>> ELSE <<>>)

\* paceStatusMap[summary.pace.status]
PaceStatusMap(status) ==
    IF status = "ahead" THEN "under"
    ELSE IF status = "behind" THEN "over"
    ELSE "on_track"

\* The transactions whose id is among ids, as new_items.
RECURSIVE NewItems(_, _)
NewItems(txs, ids) ==
    IF txs = <<>> THEN <<>>
    ELSE (IF Head(txs).id \in ids
          THEN <<[merchant |-> Head(txs).merchant, amount |-> Head(txs).amount,
                  category |-> Head(txs).category]>>
          ELSE <<>>)
         \o NewItems(Tail(txs), ids)

\* checkCommand without --chart: the data directory it leaves and the result
\* it prints, of which the oneline text is left out.
checkCommand(files, now, stamp) ==
    LET loaded == getConfigWithMigration(files)
        config == IF loaded.config = Null THEN getDefaultConfig ELSE loaded.config
        files1 == [loaded.files EXCEPT !.config = config]
        current == getOrCreateCurrentMonthData(files1, now, stamp, zone)
        useMock == current.data.transactions = <<>>
        monthlyData == IF useMock THEN getMockMonthlyData(now, stamp)
                       ELSE current.data
        files2 == IF useMock THEN saveMonthlyData(current.files, monthlyData)
                  ELSE current.files
        lastMonthData == getMonthlyData(files2, getPreviousMonth(monthlyData.month))
        lastMonthCurve == IF lastMonthData = Null THEN NullCurve
                          ELSE CurveOf(buildCumulativeSpendCurve(lastMonthData))
        s == computeSummaryFromMonthlyData(monthlyData, config.settings,
                                           lastMonthCurve, now)
        files3 == [files2 EXCEPT !.summary = s]
        syncResult == files3.sync_result
        newTransactionCount == IF syncResult = Null THEN 0 ELSE syncResult.new
        newTransactionIds == IF syncResult = Null THEN {}
                             ELSE Range(syncResult.new_transaction_ids)
        reasons == AlertReasons(s, newTransactionCount)
    IN  [files |-> updateMonthlyLastCheck(files3, getCurrentMonth(now), stamp),
         out |-> [command |-> "check",
                  should_alert |-> Len(reasons) > 0,
                  reasons |-> reasons,
                  month |-> monthlyData.month,
                  budget |-> config.settings.monthly_target,
                  spent |-> s.spending.total,
                  remaining |-> s.spending.remaining,
                  day_of_month |-> s.period.days_elapsed,
                  days_in_month |-> s.period.days_elapsed + s.period.days_remaining,
                  days_remaining |-> s.period.days_remaining,
                  expected_spend |-> s.pace.expected,
                  pace |-> PaceStatusMap(s.pace.status),
                  pace_delta |-> s.pace.diff,
                  pace_percent |-> RoundTenths(s.pace.percent_diff),
                  pace_source |-> s.pace.source,
                  new_transactions |-> newTransactionCount,
                  last_check |-> monthlyData.last_check,
                  new_items |-> NewItems(monthlyData.transactions,
                                         newTransactionIds)]]

\* new Date(now.getTime() - days * 24 * 60 * 60 * 1000), as a date: within the
\* month while the days allow, from the end of the month before otherwise.
RECURSIVE MinusDays(_, _)
MinusDays(date, days) ==
    IF days < DayOf(date) THEN date - days
    ELSE MinusDays(EndOfPreviousMonth(date), days - DayOf(date))

\* allTransactions.filter(t => t.date >= cutoffStr)
RECURSIVE FromDate(_, _)
FromDate(txs, cutoff) ==
    IF txs = <<>> THEN <<>>
    ELSE (IF Head(txs).date >= cutoff THEN <<Head(txs)>> ELSE <<>>)
         \o FromDate(Tail(txs), cutoff)

\* The fields of a transaction that recent prints.
OutputOf(t) ==
    [date |-> t.date, amount |-> t.amount, merchant |-> t.merchant,
     category |-> t.category]

\* An option of the command line: not given, or a number.
NotGiven == [given |-> FALSE, n |-> 0]
Given(n) == [given |-> TRUE, n |-> n]

\* The month recent reads besides the current one: getMonth() numbers the
\* months from 0, so the month is the one before the month of the cutoff.
RecentPrevMonth(cutoff) ==
    LET cutoffYear == YearOf(cutoff \div 100)
        cutoffMonth == MonthNumOf(cutoff \div 100) - 1
    IN  IF cutoffMonth = 0 THEN (cutoffYear - 1) * 100 + 12
        ELSE cutoffYear * 100 + cutoffMonth

\* recentCommand with --days and --count: the data directory it leaves and
\* the transactions it prints.
recentCommand(files, now, stamp, days, count) ==
    LET current == getOrCreateCurrentMonthData(files, now, stamp, zone)
        useMock == current.data.transactions = <<>>
        monthlyData == IF useMock THEN getMockMonthlyData(now, stamp)
                       ELSE current.data
        files1 == IF useMock THEN saveMonthlyData(current.files, monthlyData)
                  ELSE current.files
        cutoff == MinusDays(now, days)
        lookBack == \/ YearOf(cutoff \div 100) < YearOf(now \div 100)
                    \/ MonthNumOf(cutoff \div 100) - 1 < MonthNumOf(now \div 100) - 1
        prevMonthData == getMonthlyData(files1, RecentPrevMonth(cutoff))
        allTransactions ==
            monthlyData.transactions
                \o (IF lookBack /\ prevMonthData # Null
                    THEN prevMonthData.transactions ELSE <<>>)
        sorted == SortByDateDesc(FromDate(allTransactions, cutoff))
        filtered == IF count.given
                    THEN SubSeq(sorted, 1, IF count.n < Len(sorted)
                                           THEN count.n ELSE Len(sorted))
                    ELSE sorted
    IN  [files |-> files1,
         out |-> [command |-> "recent", days |-> days, count |-> count,
                  transactions |-> [i \in 1..Len(filtered) |->
                                       OutputOf(filtered[i])]]]

\* The months of the fetched transactions, t.date.slice(0, 7), in the order in
\* which the Map first sees them.
RECURSIVE MonthKeys(_, _)
MonthKeys(txs, seen) ==
    IF txs = <<>> THEN <<>>
    ELSE LET month == Head(txs).date \div 100
         IN  IF month \in seen THEN MonthKeys(Tail(txs), seen)
             ELSE <<month>> \o MonthKeys(Tail(txs), seen \cup {month})

\* transactionsByMonth.get(month): the fetched transactions of the month, in
\* the order of the fetch.
RECURSIVE OfMonth(_, _)
OfMonth(txs, month) ==
    IF txs = <<>> THEN <<>>
    ELSE (IF Head(txs).date \div 100 = month THEN <<Head(txs)>> ELSE <<>>)
         \o OfMonth(Tail(txs), month)

\* transactions.filter(t => !existingIds.has(t.id)).map(t => t.id)
RECURSIVE NewIds(_, _)
NewIds(txs, existingIds) ==
    IF txs = <<>> THEN <<>>
    ELSE (IF Head(txs).id \in existingIds THEN <<>> ELSE <<Head(txs).id>>)
         \o NewIds(Tail(txs), existingIds)

\* The loop of runSync over the months of the fetch: each month's ledger is
\* read, or created empty, merged with the month's transactions and saved.
\* `merges` lists the calls of addTransactionsToMonthlyData the loop makes:
\* the arguments, the first argument after the call and what is returned.
RECURSIVE ProcessMonths(_, _, _, _, _)
ProcessMonths(files, months, newTransactions, now, stamp) ==
    IF months = <<>>
    THEN [files |-> files, totalAdded |-> 0, newTransactionIds |-> <<>>,
          merges |-> <<>>]
    ELSE LET month == Head(months)
             transactions == OfMonth(newTransactions, month)
             stored == getMonthlyData(files, month)
             monthlyData == IF stored = Null THEN NewMonthlyData(month, stamp)
                            ELSE stored
             r == addTransactionsToMonthlyData(monthlyData, transactions, stamp)
             after == InputAfterMerge(monthlyData, transactions)
             newIds == IF month = getCurrentMonth(now)
                       THEN NewIds(transactions, IdsOf(after.transactions))
                       ELSE <<>>
             rest == ProcessMonths(saveMonthlyData(files, r.updated),
                                   Tail(months), newTransactions, now, stamp)
         IN  [files |-> rest.files,
              totalAdded |-> r.added + rest.totalAdded,
              newTransactionIds |-> newIds \o rest.newTransactionIds,
              merges |-> <<[monthlyData |-> monthlyData,
                            newTransactions |-> transactions,
                            after |-> after, added |-> r.added,
                            updated |-> r.updated]>> \o rest.merges]

\* An abort that leaves a sync result behind.
ExitWithErrorAfterResult(files) ==
    [files |-> [files EXCEPT !.sync_result =
                   [synced |-> 0, new |-> 0, total_this_month |-> 0,
                    new_transaction_ids |-> <<>>]],
     exit |-> 1, merges |-> <<>>]

\* console.error(...); process.exit(1): the process ends with exit code 1 and
\* the data directory as it is.
ExitWithError(files) == [files |-> files, exit |-> 1, merges |-> <<>>]

\* What the environment of one sync answers: whether the keychain holds the
\* access token, whether the bank fetch succeeds, whether the response names
\* an account, and the transactions of the response.
Fetch(token, ok, account, transactions) ==
    [token |-> token, ok |-> ok, account |-> account,
     transactions |-> transactions]

\* runSync: the data directory it leaves, the exit code of the process and
\* the merges it made.
runSync(files, now, stamp, env) ==
    LET loaded == getConfigWithMigration(files)
        config == loaded.config
        abort == ExitWithError(loaded.files)
    IN  IF config = Null THEN abort
        ELSE IF getPrimaryItem(config) = Null THEN abort
        ELSE IF ~env.token THEN abort
        ELSE IF ~env.ok THEN abort
        ELSE IF ~env.account THEN abort
        ELSE LET newTransactions == env.transactions
                 merged == ProcessMonths(loaded.files, MonthKeys(newTransactions, {}),
                                         newTransactions, now, stamp)
                 current == getOrCreateCurrentMonthData(merged.files, now, stamp, zone)
                 s == computeSummaryFromMonthlyData(current.data, config.settings,
                                                    NullCurve, now)
                 syncResult == [synced |-> Len(newTransactions),
                                new |-> merged.totalAdded,
                                total_this_month |-> s.spending.total,
                                new_transaction_ids |-> merged.newTransactionIds]
             IN  [files |-> [current.files EXCEPT !.summary = s,
                                                  !.sync_result = syncResult],
                  exit |-> 0, merges |-> merged.merges]

\* statusCommand: the data directory it leaves and the summary it prints.
statusCommand(files, now, stamp) ==
    LET loaded == getConfigWithMigration(files)
        config == IF loaded.config = Null THEN getDefaultConfig ELSE loaded.config
        files1 == [loaded.files EXCEPT !.config = config]
        current == getOrCreateCurrentMonthData(files1, now, stamp, zone)
        useMock == current.data.transactions = <<>>
        monthlyData == IF useMock THEN getMockMonthlyData(now, stamp)
                       ELSE current.data
        files2 == IF useMock THEN saveMonthlyData(current.files, monthlyData)
                  ELSE current.files
        lastMonthData == getMonthlyData(files2, getPreviousMonth(monthlyData.month))
        lastMonthCurve == IF lastMonthData = Null THEN NullCurve
                          ELSE CurveOf(buildCumulativeSpendCurve(lastMonthData))
        s == computeSummaryFromMonthlyData(monthlyData, config.settings,
                                           lastMonthCurve, now)
    IN  [files |-> [files2 EXCEPT !.summary = s],
         out |-> [command |-> "status", summary |-> s]]

\* ------------------------------------------------------------------ inputs

\* The month of the ledger: January 2026.
LedgerMonth == 202601

\* The transactions a bank fetch may hold: a pending charge, the same charge
\* with changed fields, the posted charge that replaces it and unrelated
\* charges on the same and on another day, one of them pending with a reference.
TxPool ==
    { Transaction("tx1", DateStr(2026, 1, 10), 50000, "Store A", "Shopping", "true", Undefined),
      Transaction("tx1", DateStr(2026, 1, 10), 55000, "Store A+", "Dining", "false", Undefined),
      Transaction("tx2", DateStr(2026, 1, 10), 52000, "Store A", "Shopping", "false", "tx1"),
      Transaction("tx3", DateStr(2026, 1, 12), 100000, "Store B", "Food", Undefined, Undefined),
      Transaction("tx4", DateStr(2026, 1, 10), 75000, "Store C", "Gas", "true", "tx3") }

\* All sequences over S of length at most n.
RECURSIVE SeqsUpTo(_, _)
SeqsUpTo(S, n) ==
    IF n = 0 THEN {<<>>}
    ELSE LET shorter == SeqsUpTo(S, n - 1)
         IN  shorter \cup {Append(s, x) : s \in shorter, x \in S}

Batches == SeqsUpTo(TxPool, MaxBatch)

\* ------------------------------------------------------------ the machine

NoSummary == [monthlyData |-> NewMonthlyData(LedgerMonth, 0),
              settings |-> [monthly_target |-> DefaultTarget],
              lastMonthCurve |-> NullCurve, now |-> DateStr(2026, 1, 1),
              result |-> Null, done |-> FALSE]

\* The data directory: the monthly ledgers by month, the legacy transaction
\* log, the configuration, the last sync's result and the last summary.
NoVault == [ledgers |-> <<>>, transactions |-> Null, config |-> Null,
            sync_result |-> Null, summary |-> Null]

NoOutput == [command |-> "none"]

NoCall == [op |-> "none", before |-> NewMonthlyData(LedgerMonth, 0),
           batch |-> <<>>, added |-> 0]

NoPace == [dayOfMonth |-> 1, daysInCurrentMonth |-> 31,
           lastMonthCurve |-> NullCurve, monthlyTarget |-> 0,
           result |-> [expected |-> Rat(0, 1), source |-> "none"],
           done |-> FALSE]

Init ==
    /\ ledger = NewMonthlyData(LedgerMonth, 0)
    /\ clock = 0
    /\ summary = NoSummary
    /\ vault = NoVault
    /\ today = 0
    /\ zone = "UTC"
    /\ running = <<>>
    /\ out = NoOutput
    /\ call = NoCall
    /\ curve = <<>>
    /\ pace = NoPace

\* One merge of a fetched batch into the stored ledger, as runSync does for
\* one month: read, addTransactionsToMonthlyData, save.
Merge(batch) ==
    /\ clock < MaxClock
    /\ LET r == addTransactionsToMonthlyData(ledger, batch, clock + 1)
       IN  /\ ledger' = r.updated
           /\ call' = [op |-> "merge", before |-> ledger, batch |-> batch,
                       added |-> r.added]
    /\ clock' = clock + 1
    /\ UNCHANGED <<curve, pace, summary, cliVars>>

Next == \E batch \in Batches : Merge(batch)

Spec == Init /\ [][Next]_vars

\* ------------------------------------------- the curve builder, applied

\* Months of 28, 29, 30 and 31 days.
CurveMonths == {202602, 202402, 202604, 202601}

\* Charges on the first day, in mid-month (one with a fraction of a cent, one
\* a refund), on the 28th, and one dated the 31st of January.
CurvePool ==
    { Transaction("c1", DateStr(2026, 2, 1), 47500, "Whole Foods Market", "Groceries", "false", Undefined),
      Transaction("c2", DateStr(2026, 2, 15), 125005, "Amazon", "Shopping", "false", Undefined),
      Transaction("c3", DateStr(2026, 2, 15), -20000, "Amazon", "Shopping", "false", Undefined),
      Transaction("c4", DateStr(2026, 2, 28), 85000, "Shell Gas Station", "Gas", "false", Undefined),
      Transaction("c5", DateStr(2026, 1, 31), 125000, "Target", "Shopping", "false", Undefined) }

\* The ledgers one merge into a new month's ledger stores.
LedgersOf(months, pool, n) ==
    {addTransactionsToMonthlyData(NewMonthlyData(m, 0), b, 0).updated :
        m \in months, b \in SeqsUpTo(pool, n)}

InitCurve ==
    /\ ledger \in LedgersOf(CurveMonths, CurvePool, MaxCurveTx)
    /\ clock = 0
    /\ summary = NoSummary
    /\ vault = NoVault
    /\ today = 0
    /\ zone = "UTC"
    /\ running = <<>>
    /\ out = NoOutput
    /\ call = NoCall
    /\ curve = <<>>
    /\ pace = NoPace

\* buildCumulativeSpendCurve on the stored ledger, as check and status do.
BuildCurve ==
    /\ call.op = "none"
    /\ curve' = buildCumulativeSpendCurve(ledger)
    /\ call' = [call EXCEPT !.op = "curve"]
    /\ UNCHANGED <<ledger, clock, pace, summary, cliVars>>

NextCurve == BuildCurve

SpecCurve == InitCurve /\ [][NextCurve]_vars

\* --------------------------------------------- the pace engine, applied

\* A map with gaps, which buildCumulativeSpendCurve never returns.
SparseCurve == (1 :> 100000) @@ (15 :> 4200000)

\* The prior-month curves: none, an empty one, one with gaps, and the curves
\* of the prior month's ledgers.
PriorCurves ==
    {NullCurve, CurveOf(<<>>), CurveOf(SparseCurve)}
        \cup {CurveOf(buildCumulativeSpendCurve(l)) :
                 l \in LedgersOf(CurveMonths, CurvePool, MaxPriorTx)}

\* settings.monthly_target, in mills.
Targets == {0, 8000000, 9000000}

InitPace ==
    /\ ledger = NewMonthlyData(LedgerMonth, 0)
    /\ clock = 0
    /\ summary = NoSummary
    /\ vault = NoVault
    /\ today = 0
    /\ zone = "UTC"
    /\ running = <<>>
    /\ out = NoOutput
    /\ call = NoCall
    /\ curve = <<>>
    /\ \E days \in 28..31, day \in 1..31, c \in PriorCurves, target \in Targets :
           /\ day <= days
           /\ pace = [dayOfMonth |-> day, daysInCurrentMonth |-> days,
                      lastMonthCurve |-> c, monthlyTarget |-> target,
                      result |-> NoPace.result, done |-> FALSE]

\* The call of getExpectedSpendFromCurve in computeSummaryFromMonthlyData.
GetExpected ==
    /\ ~pace.done
    /\ pace' = [pace EXCEPT
                   !.result = getExpectedSpendFromCurve(
                       pace.dayOfMonth, pace.daysInCurrentMonth,
                       pace.lastMonthCurve, pace.monthlyTarget),
                   !.done = TRUE]
    /\ UNCHANGED <<ledger, clock, call, curve, summary, cliVars>>

NextPace == GetExpected

SpecPace == InitPace /\ [][NextPace]_vars

\* ------------------------------------------------- the summary, applied

\* Months of 31 and of 30 days.
SummaryMonths == {202601, 202604}

\* The amounts of the month's charges, in mills: the 5% edges of a baseline
\* of 4000, the 'watch' line of day 15 of 30, the totals around a target of
\* 8000, a small charge and a refund.
SummaryAmounts ==
    {-20000, 0, 47500, 3800000, 4200000, 4300000, 4500000, 4800000, 4900000,
     6500000, 7600000, 8000000, 8500000}

\* The ledgers of a month: up to MaxSummaryTx charges on its 5th day.
SummaryLedgers(month) ==
    {addTransactionsToMonthlyData(NewMonthlyData(month, 0), b, 0).updated :
        b \in SeqsUpTo({Transaction("s1", month * 100 + 5, a, "Target",
                                    "Shopping", "false", Undefined) :
                            a \in SummaryAmounts},
                       MaxSummaryTx)}

\* The prior month's ledgers: a refund on the 1st followed by a charge on the
\* 10th, and a charge on the 1st followed by one on the 20th.
SummaryPriorLedgers(month) ==
    {addTransactionsToMonthlyData(NewMonthlyData(month, 0), b, 0).updated :
        b \in {<<Transaction("p1", month * 100 + 1, -20000, "Amazon",
                             "Shopping", "false", Undefined),
                 Transaction("p2", month * 100 + 10, 4020000, "Best Buy",
                             "Electronics", "false", Undefined)>>,
               <<Transaction("p1", month * 100 + 1, 47500, "Whole Foods Market",
                             "Groceries", "false", Undefined),
                 Transaction("p2", month * 100 + 20, 6000000, "Renovation Depot",
                             "Home", "false", Undefined)>>}}

\* lastMonthCurve: null, or the curve of the prior month's ledger.
SummaryPriorCurves(month) ==
    {NullCurve} \cup {CurveOf(buildCumulativeSpendCurve(l)) :
                         l \in SummaryPriorLedgers(getPreviousMonth(month))}

\* settings.monthly_target: the default, a smaller one, none and a negative
\* one.
SummaryTargets == {DefaultTarget, 1000000, 0, -1000000}

\* The dates of 'now': days of the ledger's month, a day of the month after
\* it and a day of the same month of another year.
SummaryNows(month) ==
    {month * 100 + d : d \in {1, 15, 27, 28, 30}}
        \cup {(month + 1) * 100 + 3, (month - 100) * 100 + 15}

InitSummary ==
    /\ ledger = NewMonthlyData(LedgerMonth, 0)
    /\ clock = 0
    /\ call = NoCall
    /\ curve = <<>>
    /\ pace = NoPace
    /\ vault = NoVault
    /\ today = 0
    /\ zone = "UTC"
    /\ running = <<>>
    /\ out = NoOutput
    /\ \E month \in SummaryMonths :
       \E l \in SummaryLedgers(month), target \in SummaryTargets,
          c \in SummaryPriorCurves(month), now \in SummaryNows(month) :
           summary = [monthlyData |-> l,
                      settings |-> [monthly_target |-> target],
                      lastMonthCurve |-> c, now |-> now,
                      result |-> Null, done |-> FALSE]

\* The call of computeSummaryFromMonthlyData in check, status and sync.
ComputeSummary ==
    /\ ~summary.done
    /\ summary' = [summary EXCEPT
                      !.result = computeSummaryFromMonthlyData(
                          summary.monthlyData, summary.settings,
                          summary.lastMonthCurve, summary.now),
                      !.done = TRUE]
    /\ UNCHANGED <<ledger, clock, call, curve, pace, cliVars>>

NextSummary == ComputeSummary

SpecSummary == InitSummary /\ [][NextSummary]_vars

\* ----------------------------------------------------- the check command

\* The days on which check runs: the first day of April 2026, mid-month, the
\* days with 3 and 2 days remaining, and the last day.
CheckDays == {DateStr(2026, 4, d) : d \in {1, 15, 27, 28, 30}}

\* sync_result.yaml as the last sync left it: never written, or the count of
\* transactions the sync added over all months and the ids of those it added
\* to the current month.
SyncResults ==
    {Null,
     [new |-> 0, new_transaction_ids |-> <<>>],
     [new |-> 1, new_transaction_ids |-> <<"s1">>],
     [new |-> 3, new_transaction_ids |-> <<"s1">>]}

\* config.yaml: never written, or one with a monthly target.
Configs ==
    {Null} \cup {[getDefaultConfig EXCEPT !.settings.monthly_target = t] :
                    t \in {DefaultTarget, 1000000}}

\* The monthly files: the current month's ledger, if any, and the prior
\* month's, if any.
LedgerFiles(month) ==
    {<<>>}
        \cup {month :> l : l \in SummaryLedgers(month)}
        \cup {getPreviousMonth(month) :> q :
                 q \in SummaryPriorLedgers(getPreviousMonth(month))}
        \cup {(month :> l) @@ (getPreviousMonth(month) :> q) :
                 l \in SummaryLedgers(month),
                 q \in SummaryPriorLedgers(getPreviousMonth(month))}

InitCheck ==
    /\ ledger = NewMonthlyData(LedgerMonth, 0)
    /\ clock = 0
    /\ call = NoCall
    /\ curve = <<>>
    /\ pace = NoPace
    /\ summary = NoSummary
    /\ out = NoOutput
    /\ today \in CheckDays
    /\ zone = "UTC"
    /\ running = <<>>
    /\ \E files \in LedgerFiles(getCurrentMonth(today)),
          config \in Configs, result \in SyncResults :
           vault = [NoVault EXCEPT !.ledgers = files, !.config = config,
                                   !.sync_result = result]

\* One run of 'spend-pulse check'.
Check ==
    /\ clock < MaxClock
    /\ LET r == checkCommand(vault, today, clock + 1)
       IN  /\ vault' = r.files
           /\ out' = r.out
    /\ clock' = clock + 1
    /\ UNCHANGED <<ledger, call, curve, pace, summary, today, zone, running>>

NextCheck == Check

SpecCheck == InitCheck /\ [][NextCheck]_vars

\* ---------------------------------------------------- the recent command

\* The days on which recent runs: the 2nd of April 2026, mid-April and the
\* 2nd of January.
RecentDays == {DateStr(2026, 4, 2), DateStr(2026, 4, 15), DateStr(2026, 1, 2)}

\* The values of --days: the default and one that reaches two months back.
DaysOptions == {5, 40}

\* The values of --count.
CountOptions == {NotGiven, Given(1)}

\* The charges of a month: two on its 2nd day and one on its 28th.
RecentPool(month) ==
    { Transaction("r1", month * 100 + 2, 47500, "Whole Foods Market", "Groceries", "false", Undefined),
      Transaction("r2", month * 100 + 2, 125000, "Amazon", "Shopping", "false", Undefined),
      Transaction("r3", month * 100 + 28, 85000, "Shell Gas Station", "Gas", "false", Undefined) }

\* The files a month may have: none, or a ledger of up to MaxRecentTx charges.
MonthFiles(month) ==
    {<<>>} \cup {month :> l : l \in LedgersOf({month}, RecentPool(month), MaxRecentTx)}

InitRecent ==
    /\ ledger = NewMonthlyData(LedgerMonth, 0)
    /\ clock = 0
    /\ call = NoCall
    /\ curve = <<>>
    /\ pace = NoPace
    /\ summary = NoSummary
    /\ out = NoOutput
    /\ today \in RecentDays
    /\ zone = "UTC"
    /\ running = <<>>
    /\ LET month == getCurrentMonth(today)
       IN  \E f0 \in MonthFiles(month),
              f1 \in MonthFiles(getPreviousMonth(month)),
              f2 \in MonthFiles(getPreviousMonth(getPreviousMonth(month))) :
               vault = [NoVault EXCEPT !.ledgers = f0 @@ f1 @@ f2]

\* One run of 'spend-pulse recent --days days [--count n]'.
Recent(days, count) ==
    /\ clock < MaxClock
    /\ LET r == recentCommand(vault, today, clock + 1, days, count)
       IN  /\ vault' = r.files
           /\ out' = r.out
    /\ clock' = clock + 1
    /\ UNCHANGED <<ledger, call, curve, pace, summary, today, zone, running>>

NextRecent == \E days \in DaysOptions, count \in CountOptions : Recent(days, count)

SpecRecent == InitRecent /\ [][NextRecent]_vars

\* --------------------------------------- the legacy migration, applied

\* The days on which the current month's ledger is asked for.
MigrateDays == {DateStr(2026, 4, 15), DateStr(2026, 1, 15)}

\* The time zones of the process.
Zones == {"UTC", "east"}

\* The charges of a legacy log around a month: on the last day of the month
\* before, on the first and the last day of the month and on the first day of
\* the month after.
LegacyPool(month) ==
    LET last == month * 100 + DaysInMonth(YearOf(month), MonthNumOf(month))
    IN  { Transaction("g1", EndOfPreviousMonth(month * 100 + 1), 47500,
                      "Whole Foods Market", "Groceries", "false", Undefined),
          Transaction("g2", month * 100 + 1, 125000, "Amazon", "Shopping",
                      "false", Undefined),
          Transaction("g3", last, 85000, "Shell Gas Station", "Gas", "false",
                      Undefined),
          Transaction("g4", (month + 1) * 100 + 1, 156780, "Target", "Shopping",
                      "false", Undefined) }

\* The legacy transactions.yaml: absent, or a log of up to MaxLegacyTx charges.
LegacyLogs(month) ==
    {Null} \cup {[last_sync |-> 0, transactions |-> txs] :
                    txs \in SeqsUpTo(LegacyPool(month), MaxLegacyTx)}

\* The current month's file: absent, or a stored ledger of up to MaxRecentTx
\* charges, which may be none.
InitMigrate ==
    /\ ledger = NewMonthlyData(LedgerMonth, 0)
    /\ clock = 0
    /\ call = NoCall
    /\ curve = <<>>
    /\ pace = NoPace
    /\ summary = NoSummary
    /\ out = NoOutput
    /\ today \in MigrateDays
    /\ zone \in Zones
    /\ running = <<>>
    /\ \E f \in MonthFiles(getCurrentMonth(today)),
          log \in LegacyLogs(getCurrentMonth(today)) :
           vault = [NoVault EXCEPT !.ledgers = f, !.transactions = log]

\* One call of getOrCreateCurrentMonthData().
GetOrCreate ==
    /\ clock < MaxClock
    /\ LET r == getOrCreateCurrentMonthData(vault, today, clock + 1, zone)
       IN  /\ vault' = r.files
           /\ call' = [op |-> "getOrCreateCurrentMonthData", before |-> vault,
                       returned |-> r.data]
    /\ clock' = clock + 1
    /\ UNCHANGED <<ledger, curve, pace, summary, today, zone, running, out>>

NextMigrate == GetOrCreate

SpecMigrate == InitMigrate /\ [][NextMigrate]_vars

\* ------------------------------------------- the commands on one directory

\* The days on which the commands run: mid-April, early January and the 30th
\* of March 2026, a day that February does not have.
StoreDays == {DateStr(2026, 4, 15), DateStr(2026, 1, 5), DateStr(2026, 3, 30)}

\* The charges the bank may report around a month: a pending charge on the
\* last day of the month before and the posted charge that replaces it on the
\* 1st, a pending charge on the 10th and the posted charge that replaces it,
\* and a plain charge on the 12th.
BankPool(month) ==
    [x |-> Transaction("x", EndOfPreviousMonth(month * 100 + 1), 47500,
                       "Whole Foods Market", "Groceries", "true", Undefined),
     y |-> Transaction("y", month * 100 + 1, 47500, "Whole Foods Market",
                       "Groceries", "false", "x"),
     p |-> Transaction("p", month * 100 + 10, 125000, "Amazon", "Shopping",
                       "true", Undefined),
     q |-> Transaction("q", month * 100 + 10, 125000, "Amazon", "Shopping",
                       "false", "p"),
     r |-> Transaction("r", month * 100 + 12, 85000, "Shell Gas Station", "Gas",
                       "false", Undefined)]

\* The transactions of one response of the bank.
Responses(month) ==
    LET b == BankPool(month)
    IN  {<<>>, <<b.x>>, <<b.y>>, <<b.p>>, <<b.q>>, <<b.p, b.q>>, <<b.r, b.x>>}

\* What the environment may answer to one sync: no token in the keychain, a
\* failed fetch, a response without accounts, or a response with transactions.
SyncEnvs(month) ==
    {Fetch(FALSE, TRUE, TRUE, <<>>), Fetch(TRUE, FALSE, TRUE, <<>>),
     Fetch(TRUE, TRUE, FALSE, <<>>)}
        \cup {Fetch(TRUE, TRUE, TRUE, txs) : txs \in Responses(month)}

\* config.yaml: never written, written by getDefaultConfig with no linked
\* item, written by setup with a linked item, or in the legacy format with an
\* access token.
StoreConfigs ==
    {Null,
     getDefaultConfig,
     [getDefaultConfig EXCEPT !.plaid.items = <<[item_id |-> "item-1"]>>],
     [plaid |-> [client_id |-> "id", secret |-> "s", access_token |-> "t"],
      settings |-> [monthly_target |-> DefaultTarget]]}

\* The monthly files at the start: none; the current month's ledger, empty as
\* a migration leaves it or with the pending charge of the 10th and a
\* last_check; the ledger of the month before, holding the pending charge of
\* its last day, alone and with the current month's; and the ledger of the
\* month before holding a charge on its 1st and one on its 20th.
StoreFiles(month) ==
    LET b == BankPool(month)
        prev == getPreviousMonth(month)
        empty == NewMonthlyData(month, 0)
        checked == [NewMonthlyData(month, 0) EXCEPT
                       !.last_check = 0, !.transactions = <<b.p>>]
        before == [NewMonthlyData(prev, 0) EXCEPT !.transactions = <<b.x>>]
        spent == [NewMonthlyData(prev, 0) EXCEPT !.transactions =
                     << Transaction("p2", prev * 100 + 20, 6000000,
                                    "Renovation Depot", "Home", "false", Undefined),
                        Transaction("p1", prev * 100 + 1, 47500,
                                    "Whole Foods Market", "Groceries", "false",
                                    Undefined) >>]
    IN  << <<>>, month :> empty, month :> checked, prev :> before,
           (month :> checked) @@ (prev :> before), prev :> spent >>

InitStore ==
    /\ ledger = NewMonthlyData(LedgerMonth, 0)
    /\ clock = 0
    /\ call = NoCall
    /\ curve = <<>>
    /\ pace = NoPace
    /\ summary = NoSummary
    /\ out = NoOutput
    /\ today \in StoreDays
    /\ zone = "UTC"
    /\ running = <<>>
    /\ LET files == StoreFiles(getCurrentMonth(today))
       IN  \E i \in 1..Len(files), config \in StoreConfigs :
               vault = [NoVault EXCEPT !.ledgers = files[i], !.config = config]

\* One run of 'spend-pulse sync'.
Sync(env) ==
    /\ clock < MaxRuns
    /\ LET r == runSync(vault, today, clock + 1, env)
       IN  /\ vault' = r.files
           /\ call' = [op |-> "sync", before |-> vault, env |-> env,
                       exit |-> r.exit, merges |-> r.merges]
    /\ out' = NoOutput
    /\ clock' = clock + 1
    /\ UNCHANGED <<ledger, curve, pace, summary, today, zone, running>>

\* One run of 'spend-pulse check'.
StoreCheck ==
    /\ clock < MaxRuns
    /\ LET r == checkCommand(vault, today, clock + 1)
       IN  /\ vault' = r.files
           /\ out' = r.out
    /\ call' = [op |-> "check", before |-> vault]
    /\ clock' = clock + 1
    /\ UNCHANGED <<ledger, curve, pace, summary, today, zone, running>>

\* One run of 'spend-pulse status'.
StoreStatus ==
    /\ clock < MaxRuns
    /\ LET r == statusCommand(vault, today, clock + 1)
       IN  /\ vault' = r.files
           /\ out' = r.out
    /\ call' = [op |-> "status", before |-> vault]
    /\ clock' = clock + 1
    /\ UNCHANGED <<ledger, curve, pace, summary, today, zone, running>>

\* One run of 'spend-pulse recent'.
StoreRecent ==
    /\ clock < MaxRuns
    /\ LET r == recentCommand(vault, today, clock + 1, 5, NotGiven)
       IN  /\ vault' = r.files
           /\ out' = r.out
    /\ call' = [op |-> "recent", before |-> vault]
    /\ clock' = clock + 1
    /\ UNCHANGED <<ledger, curve, pace, summary, today, zone, running>>

NextStore ==
    \/ \E env \in SyncEnvs(getCurrentMonth(today)) : Sync(env)
    \/ StoreCheck
    \/ StoreStatus
    \/ StoreRecent

SpecStore == InitStore /\ [][NextStore]_vars

\* ------------------------------------------------ overlapping invocations

\* The day of the overlap: a day of the ledger's month.
OverlapDay == DateStr(2026, 1, 12)

\* The transactions the bank reports to a sync of the overlap.
OverlapBatches ==
    {<<t>> : t \in TxPool}
        \cup {<< Transaction("tx3", DateStr(2026, 1, 12), 100000, "Store B",
                             "Food", Undefined, Undefined),
                 Transaction("tx5", DateStr(2026, 1, 11), 85000,
                             "Shell Gas Station", "Gas", "false", Undefined) >>}

\* An invocation that has not yet read the month's file: a sync at its read of
\* the month's ledger with the month's transactions fetched, or a check at
\* updateMonthlyLastCheck.
Invocation(kind, batch) ==
    [kind |-> kind, batch |-> batch, pc |-> "start", data |-> Null,
     readAt |-> 0, wroteAt |-> 0, written |-> Null]

\* The month's file at the start: absent, or holding a pending charge.
OverlapFiles ==
    {<<>>,
     LedgerMonth :> [NewMonthlyData(LedgerMonth, 0) EXCEPT
                        !.transactions =
                            <<Transaction("tx1", DateStr(2026, 1, 10), 50000,
                                          "Store A", "Shopping", "true",
                                          Undefined)>>]}

InitOverlap ==
    /\ ledger = NewMonthlyData(LedgerMonth, 0)
    /\ clock = 0
    /\ call = NoCall
    /\ curve = <<>>
    /\ pace = NoPace
    /\ summary = NoSummary
    /\ out = NoOutput
    /\ today = OverlapDay
    /\ zone = "UTC"
    /\ \E files \in OverlapFiles : vault = [NoVault EXCEPT !.ledgers = files]
    /\ \E b1 \in OverlapBatches :
           \/ \E b2 \in OverlapBatches :
                  running = <<Invocation("sync", b1), Invocation("sync", b2)>>
           \/ running = <<Invocation("sync", b1), Invocation("check", <<>>)>>

\* getMonthlyData(month) of an invocation: runSync's read of the month's
\* ledger, or the read of updateMonthlyLastCheck.
ReadLedger(i) ==
    /\ running[i].pc = "start"
    /\ running' = [running EXCEPT
                      ![i].pc = "read",
                      ![i].data = getMonthlyData(vault, getCurrentMonth(today)),
                      ![i].readAt = clock + 1]
    /\ clock' = clock + 1
    /\ UNCHANGED <<ledger, call, curve, pace, summary, vault, today, zone, out>>

\* The write of a sync: the ledger it read, or a new one, merged with its
\* transactions and saved.
WriteMerged(i) ==
    /\ running[i].pc = "read"
    /\ running[i].kind = "sync"
    /\ LET monthlyData == IF running[i].data = Null
                          THEN NewMonthlyData(getCurrentMonth(today), clock + 1)
                          ELSE running[i].data
           r == addTransactionsToMonthlyData(monthlyData, running[i].batch,
                                             clock + 1)
       IN  /\ vault' = saveMonthlyData(vault, r.updated)
           /\ running' = [running EXCEPT ![i].pc = "done",
                                         ![i].wroteAt = clock + 1,
                                         ![i].written = r.updated]
    /\ clock' = clock + 1
    /\ UNCHANGED <<ledger, call, curve, pace, summary, today, zone, out>>

\* The write of updateMonthlyLastCheck: the ledger it read with a new
\* last_check, saved; nothing when it read no ledger.
WriteLastCheck(i) ==
    /\ running[i].pc = "read"
    /\ running[i].kind = "check"
    /\ IF running[i].data = Null
       THEN /\ running' = [running EXCEPT ![i].pc = "done"]
            /\ UNCHANGED vault
       ELSE LET data == [running[i].data EXCEPT !.last_check = clock + 1]
            IN  /\ vault' = saveMonthlyData(vault, data)
                /\ running' = [running EXCEPT ![i].pc = "done",
                                              ![i].wroteAt = clock + 1,
                                              ![i].written = data]
    /\ clock' = clock + 1
    /\ UNCHANGED <<ledger, call, curve, pace, summary, today, zone, out>>

NextOverlap ==
    \E i \in 1..2 : ReadLedger(i) \/ WriteMerged(i) \/ WriteLastCheck(i)

SpecOverlap == InitOverlap /\ [][NextOverlap]_vars

\* ------------------------------------------------- the merge: properties


\* How many transactions of a list have the id.
CountId(txs, id) == Cardinality({i \in 1..Len(txs) : txs[i].id = id})

\* No two transactions of the list share an id.
UniqueIds(txs) == Cardinality(IdsOf(txs)) = Len(txs)

\* The transactions of the list that have the date, in the list's order.
RECURSIVE OnDate(_, _)
OnDate(txs, date) ==
    IF txs = <<>> THEN <<>>
    ELSE LET rest == OnDate(Tail(txs), date)
         IN  IF Head(txs).date = date THEN <<Head(txs)>> \o rest ELSE rest

\* The list is ordered by date, latest first.
DateDescending(txs) ==
    \A i, j \in 1..Len(txs) : i < j => txs[i].date >= txs[j].date

\* The last operation was a merge.
Merged == call.op = "merge"

\* The merge of the last batch once more, into the ledger as it is now.
MergedAgain == addTransactionsToMonthlyData(ledger, call.batch, clock + 1)

\* C1: after a merge of any batch into a ledger whose ids are unique, no two
\* transactions of the ledger share an id.
C1_UniqueIdsAfterMerge ==
    (Merged /\ UniqueIds(call.before.transactions))
        => UniqueIds(ledger.transactions)

\* C2: merging the same batch a second time leaves the transactions and
\* their order as they are, and adds 0.
C2_MergeTwiceIdempotent ==
    Merged => /\ MergedAgain.updated.transactions = ledger.transactions
              /\ MergedAgain.added = 0

\* C3: when the ledger holds id X and the batch holds a posted transaction P
\* (id not in the ledger) that refers to X as its pending version, then after
\* the merge X is not stored, P is stored, the ledger is shorter than the
\* concatenation of ledger and batch, and the count added is the net change
\* of the ledger's length (the pair's removal and addition cancel).
C3_PendingReplacedByPosted ==
    Merged =>
        \A i \in 1..Len(call.batch) :
            LET P == call.batch[i]
                X == P.pending_transaction_id
                stored == IdsOf(call.before.transactions)
            IN  (/\ Truthy(X) /\ X \in stored
                 /\ ~Truthy(P.pending) /\ P.id \notin stored)
                    => /\ X \notin IdsOf(ledger.transactions)
                       /\ P \in Range(ledger.transactions)
                       /\ Len(ledger.transactions)
                              < Len(call.before.transactions) + Len(call.batch)
                       /\ call.added = Len(ledger.transactions)
                                          - Len(call.before.transactions)

\* C4: a batch that is the same transaction twice, its id not stored (and
\* nothing stored being replaced), stores one transaction of that id and adds
\* 1; the same batch again adds 0.
C4_DuplicateSubmissionStoredOnce ==
    (/\ Merged
     /\ Len(call.batch) = 2
     /\ call.batch[1] = call.batch[2]
     /\ call.batch[1].id \notin IdsOf(call.before.transactions)
     /\ PendingIdsToRemove(call.batch) \cap IdsOf(call.before.transactions) = {})
        => /\ CountId(ledger.transactions, call.batch[1].id) = 1
           /\ call.added = 1
           /\ MergedAgain.added = 0

\* C5: an incoming transaction whose id is stored is ignored: whatever the
\* ledger stores under that id after the merge is a record it stored before,
\* and the count added does not exceed the number of incoming transactions
\* whose id was not stored.
C5_StoredIdKeepsItsValues ==
    Merged =>
        LET stored == IdsOf(call.before.transactions)
            fresh  == {i \in 1..Len(call.batch) : call.batch[i].id \notin stored}
        IN  /\ \A i \in 1..Len(call.batch) :
                  call.batch[i].id \in stored =>
                      \A k \in 1..Len(ledger.transactions) :
                          ledger.transactions[k].id = call.batch[i].id
                              => ledger.transactions[k]
                                     \in Range(call.before.transactions)
            /\ call.added <= Cardinality(fresh)

\* C6: after a merge the transactions are ordered by date, latest first, and
\* the transactions of one date are the stored ones that stay, in their stored
\* order, followed by the added ones, in the batch's order.
C6_SortedByDateStable ==
    Merged =>
        /\ DateDescending(ledger.transactions)
        /\ \A date \in {t.date : t \in TxPool} :
               OnDate(ledger.transactions, date)
                   = OnDate(ExistingFiltered(call.before, call.batch), date)
                     \o OnDate(ToAdd(call.before, call.batch), date)

\* C6's case: a merge that adds a transaction dated as a stored one that
\* stays, and one of a later date than a stored one.
C6_Witness ==
    /\ Merged
    /\ \E s \in Range(ExistingFiltered(call.before, call.batch)),
          a, b \in Range(ToAdd(call.before, call.batch)) :
           s.date = a.date /\ b.date > s.date

\* C26: the added count a merge returns is never negative, for every ledger
\* that merges build from an empty ledger and for every batch.
C26_AddedNeverNegative ==
    call.op = "merge" => call.added >= 0

\* ------------------------------------------ the curve builder: properties

\* The calendar: the lengths of the months the ledgers are drawn from.
CalendarDays ==
    (202602 :> 28) @@ (202402 :> 29) @@ (202604 :> 30) @@ (202601 :> 31)

\* The last operation built the curve of the ledger.
CurveBuilt == call.op = "curve"

\* No amount of the list is negative.
NonNegative(txs) == \A i \in 1..Len(txs) : txs[i].amount >= 0

\* No transaction of the list falls on the day of month.
NoneOnDay(txs, d) == \A i \in 1..Len(txs) : DayOf(txs[i].date) # d

\* C7: the curve of a ledger without negative amounts covers days 1..N of the
\* ledger's month and never decreases; a day without transactions has the
\* value of the day before (0 on day 1).
C7_CurveNonDecreasing ==
    (CurveBuilt /\ NonNegative(ledger.transactions)) =>
        LET N == CalendarDays[ledger.month]
        IN  /\ DOMAIN curve = 1..N
            /\ \A d1, d2 \in 1..N : d1 < d2 => curve[d2] >= curve[d1]
            /\ \A d \in 1..N :
                   NoneOnDay(ledger.transactions, d)
                       => curve[d] = IF d = 1 THEN 0 ELSE curve[d - 1]

\* C7's case: a ledger without negative amounts whose curve carries a spend
\* forward over a day without transactions.
C7_Witness ==
    /\ CurveBuilt
    /\ NonNegative(ledger.transactions)
    /\ \E d \in 2..CalendarDays[ledger.month] :
           /\ NoneOnDay(ledger.transactions, d)
           /\ ~NoneOnDay(ledger.transactions, d - 1)
           /\ curve[d] > 0

\* C8: the curve's entry for the last day of the ledger's month is the total
\* of the ledger's amounts, as the summary reports it.
C8_CurveEndsAtTotal ==
    CurveBuilt => curve[CalendarDays[ledger.month]] = SpendingTotal(ledger)

\* -------------------------------------------- the pace engine: properties

\* The curve has entries for the days 1..L, for some L >= 1.
IsDayCurve(c) ==
    /\ ~c.null
    /\ DOMAIN c.map # {}
    /\ DOMAIN c.map = 1..Cardinality(DOMAIN c.map)

\* C9: with a prior-month curve for days 1..L the baseline is the curve's
\* value for today, or its last value when today is past day L; its source is
\* the curve; the target and the length of the current month do not change it.
C9_BaselineFromCurve ==
    (pace.done /\ IsDayCurve(pace.lastMonthCurve)) =>
        LET map == pace.lastMonthCurve.map
            L   == Cardinality(DOMAIN map)
            day == pace.dayOfMonth
        IN  /\ pace.result.source = "last_month"
            /\ RatEq(pace.result.expected,
                     Rat(IF day <= L THEN map[day] ELSE map[L], 1))
            /\ \A target \in Targets, days \in 28..31 :
                   getExpectedSpendFromCurve(day, days, pace.lastMonthCurve, target)
                       = pace.result

\* C9's case: day 31 against the curve of a 28-day month that ends above 0.
C9_Witness ==
    /\ pace.done
    /\ IsDayCurve(pace.lastMonthCurve)
    /\ DOMAIN pace.lastMonthCurve.map = 1..28
    /\ pace.dayOfMonth = 31
    /\ pace.monthlyTarget > 0
    /\ pace.result.expected.num > 0

\* C10: without a prior-month curve (null, or no entries) the baseline is the
\* linear ramp dayOfMonth / daysInCurrentMonth * monthlyTarget, and its source
\* is the ramp; day 15 of 30 with target 9000 gives 4500.
C10_BaselineLinearRamp ==
    (pace.done /\ (pace.lastMonthCurve.null \/ DOMAIN pace.lastMonthCurve.map = {})) =>
        /\ pace.result.source = "linear"
        /\ RatEq(pace.result.expected,
                 Rat(pace.dayOfMonth * pace.monthlyTarget, pace.daysInCurrentMonth))
        /\ (pace.dayOfMonth = 15 /\ pace.daysInCurrentMonth = 30
              /\ pace.monthlyTarget = 9000000)
               => RatEq(pace.result.expected, Rat(4500000, 1))

\* C10's case: no curve, day 15 of 30, target 9000.
C10_Witness ==
    /\ pace.done
    /\ pace.lastMonthCurve.null
    /\ pace.dayOfMonth = 15
    /\ pace.daysInCurrentMonth = 30
    /\ pace.monthlyTarget = 9000000
    /\ pace.result.source = "linear"

\* ------------------------------------------------- the summary: properties

\* The inputs of the computed summary, and the quantities the claims name.
SumTotal == Total(summary.monthlyData.transactions)
SumTarget == summary.settings.monthly_target
SumMonthLength ==
    DaysInMonth(YearOf(summary.monthlyData.month),
                MonthNumOf(summary.monthlyData.month))
NowInLedgerMonth == summary.now \div 100 = summary.monthlyData.month
SumDaysElapsed == IF NowInLedgerMonth THEN DayOf(summary.now) ELSE SumMonthLength
SumExpected ==
    getExpectedSpendFromCurve(SumDaysElapsed, SumMonthLength,
                              summary.lastMonthCurve, SumTarget).expected

\* delta = actual - expected, times the denominator of expected.
DeltaNum == SumTotal * SumExpected.den - SumExpected.num
\* delta < -0.05 * expected, delta > 0.05 * expected.
BelowBand == FracLess(DeltaNum, 1, -SumExpected.num, 20)
AboveBand == FracLess(SumExpected.num, 20, DeltaNum, 1)
\* delta is exactly +5% or exactly -5% of expected.
OnUpperEdge ==
    /\ ~FracLess(SumExpected.num, 20, DeltaNum, 1)
    /\ ~FracLess(DeltaNum, 1, SumExpected.num, 20)
OnLowerEdge ==
    /\ ~FracLess(-SumExpected.num, 20, DeltaNum, 1)
    /\ ~FracLess(DeltaNum, 1, -SumExpected.num, 20)

\* C11, as stated: the classification is 'ahead' iff delta < -0.05 * expected,
\* 'behind' iff delta > 0.05 * expected and 'on_pace' otherwise, and a delta of
\* exactly +5% or -5% of expected is 'on_pace'.
C11_PaceBandAsStated ==
    summary.done =>
        LET st == summary.result.pace.status
        IN  /\ st \in {"ahead", "behind", "on_pace"}
            /\ st = "ahead" <=> BelowBand
            /\ st = "behind" <=> AboveBand
            /\ st = "on_pace" <=> (~BelowBand /\ ~AboveBand)
            /\ (OnUpperEdge \/ OnLowerEdge) => st = "on_pace"

\* C11: the classification is 'ahead' iff delta < -0.05 * expected, 'behind'
\* iff it is not 'ahead' and delta > 0.05 * expected, and 'on_pace' otherwise;
\* when expected >= 0 it is 'behind' iff delta > 0.05 * expected, and a delta
\* of exactly +5% or -5% of expected is 'on_pace'.
C11_PaceBand ==
    summary.done =>
        LET st == summary.result.pace.status
        IN  /\ st \in {"ahead", "behind", "on_pace"}
            /\ st = "ahead" <=> BelowBand
            /\ st = "behind" <=> (AboveBand /\ ~BelowBand)
            /\ st = "on_pace" <=> (~BelowBand /\ ~AboveBand)
            /\ SumExpected.num >= 0 =>
                   /\ st = "behind" <=> AboveBand
                   /\ (OnUpperEdge \/ OnLowerEdge) => st = "on_pace"

\* A summary whose spend is exactly 5% above a positive baseline.
C11_Witness ==
    /\ summary.done
    /\ SumExpected.num > 0
    /\ OnUpperEdge
    /\ summary.result.pace.status = "on_pace"

\* percentUsed > (daysElapsed / daysInMonth) * 100 + 10 and
\* percentUsed = (daysElapsed / daysInMonth) * 100 + 10, for a target that is
\* not 0; the quotient by a target of 0 is above every line iff it is +Infinity.
UsedAboveLine ==
    IF SumTarget = 0 THEN SumTotal > 0
    ELSE LET sign == IF SumTarget > 0 THEN 1 ELSE -1
         IN  FracLess(100 * SumDaysElapsed + 10 * SumMonthLength, SumMonthLength,
                      sign * 100 * SumTotal, sign * SumTarget)
UsedOnLine ==
    /\ SumTarget > 0
    /\ ~FracLess(100 * SumDaysElapsed + 10 * SumMonthLength, SumMonthLength,
                 100 * SumTotal, SumTarget)
    /\ ~FracLess(100 * SumTotal, SumTarget,
                 100 * SumDaysElapsed + 10 * SumMonthLength, SumMonthLength)

\* C12: the status is 'over' iff total > target, otherwise 'watch' iff
\* percentUsed > (daysElapsed / daysInMonth) * 100 + 10, otherwise 'on_track';
\* total = target is not 'over', percentUsed on the line is not 'watch', and a
\* total of 6500 against a target of 8000 on day 28 of 31 is 'on_track'.
C12_StatusThresholds ==
    summary.done =>
        LET st == summary.result.status
        IN  /\ st \in {"over", "watch", "on_track"}
            /\ st = "over" <=> SumTotal > SumTarget
            /\ st = "watch" <=> (~(SumTotal > SumTarget) /\ UsedAboveLine)
            /\ SumTotal = SumTarget => st # "over"
            /\ UsedOnLine => st # "watch"
            /\ (/\ SumTotal = 6500000
                /\ SumTarget = 8000000
                /\ SumDaysElapsed = 28
                /\ SumMonthLength = 31) => st = "on_track"

\* A summary whose percentUsed is exactly on the 'watch' line.
C12_Witness ==
    /\ summary.done
    /\ UsedOnLine
    /\ summary.result.status = "on_track"

\* C13: daysElapsed is the day of month of 'now' when now is in the ledger's
\* month (same year, same month) and the month's length otherwise;
\* daysRemaining is the month's length minus daysElapsed, so that a summary of
\* another month has daysElapsed = the length and daysRemaining = 0.
C13_DaysElapsed ==
    summary.done =>
        LET period == summary.result.period
        IN  /\ period.days_elapsed = SumDaysElapsed
            /\ period.days_remaining = SumMonthLength - period.days_elapsed
            /\ ~NowInLedgerMonth =>
                   /\ period.days_elapsed = SumMonthLength
                   /\ period.days_remaining = 0

\* A summary computed in the same month of another year.
C13_Witness ==
    /\ summary.done
    /\ ~NowInLedgerMonth
    /\ MonthNumOf(summary.now \div 100) = MonthNumOf(summary.monthlyData.month)
    /\ DayOf(summary.now) < SumMonthLength
    /\ summary.result.period.days_remaining = 0

\* C19: percentUsed is 0 whenever monthlyTarget <= 0 and percentDelta is 0
\* whenever expected = 0.
C19_PercentagesShortCircuit ==
    summary.done =>
        /\ SumTarget <= 0 => summary.result.spending.percent_used = Percent(0)
        /\ SumExpected.num = 0 => summary.result.pace.percent_diff = 0

\* The summary of the same ledger, settings and 'now' under another prior
\* month's curve.
SummaryUnder(c) ==
    computeSummaryFromMonthlyData(summary.monthlyData, summary.settings, c,
                                  summary.now)

\* The curves the prior month may give the summary's month, none included.
OtherCurves == SummaryPriorCurves(summary.monthlyData.month)

\* C23: for a fixed ledger, settings and 'now', the summary has the same status
\* under every prior month's curve, no curve included; the period and the
\* spending are the same too, and only the pace may differ.
C23_StatusIndependentOfCurve ==
    summary.done =>
        \A c \in OtherCurves :
            /\ SummaryUnder(c).status = summary.result.status
            /\ SummaryUnder(c).spending = summary.result.spending
            /\ SummaryUnder(c).period = summary.result.period

\* A summary whose pace is behind under one curve and ahead under another,
\* with the status 'on_track' under both.
C23_Witness ==
    /\ summary.done
    /\ summary.result.status = "on_track"
    /\ summary.result.pace.status = "behind"
    /\ \E c \in OtherCurves : SummaryUnder(c).pace.status = "ahead"

\* ------------------------------------------- the check command: properties

\* A check has run: out is its result and vault.summary the summary it saved.
Checked == out.command = "check"

\* The reasons list holds a reason of the kind.
HasReason(kind) == \E i \in 1..Len(out.reasons) : out.reasons[i].kind = kind

\* The six triggers, on the summary the check computed.
NewTransactionsTrigger == out.new_transactions > 0
WatchTrigger == vault.summary.status = "watch"
OverTrigger == vault.summary.status = "over"
OverPaceTrigger ==
    /\ vault.summary.pace.status = "behind"
    /\ vault.summary.pace.percent_diff > 100
LowRemainingTrigger ==
    /\ 0 < vault.summary.spending.remaining
    /\ vault.summary.spending.remaining < 500000
MonthEndTrigger ==
    /\ 0 < vault.summary.period.days_remaining
    /\ vault.summary.period.days_remaining <= 3
MonthStartTrigger == vault.summary.period.days_elapsed = 1

ReasonRank(kind) ==
    CASE kind = "new transactions" -> 1
      [] kind = "spending pace elevated" -> 2
      [] kind = "over budget" -> 2
      [] kind = "% over pace" -> 3
      [] kind = "only $ remaining" -> 4
      [] kind = "end of month approaching" -> 5
      [] kind = "new month started" -> 6
      [] OTHER -> 0

\* C15: the reasons list is a subsequence of the fixed order [new
\* transactions, pace elevated or over budget, over pace by N%, low remaining,
\* end of month, new month started]: each reason at most once, in that order,
\* the 'watch' and the 'over' reason never together.
C15_ReasonsInFixedOrder ==
    Checked =>
        /\ \A i \in 1..Len(out.reasons) : ReasonRank(out.reasons[i].kind) > 0
        /\ \A i, j \in 1..Len(out.reasons) :
               i < j => ReasonRank(out.reasons[i].kind)
                            < ReasonRank(out.reasons[j].kind)

\* A check whose reasons hold both the low-remaining and the end-of-month
\* reason.
C15_Witness ==
    /\ Checked
    /\ HasReason("only $ remaining")
    /\ HasReason("end of month approaching")

\* The case of C16: 3 new transactions, status 'over', remaining -500.
ThreeNewOverBy500 ==
    /\ Checked
    /\ out.new_transactions = 3
    /\ vault.summary.status = "over"
    /\ vault.summary.spending.remaining = -500000

\* C16, as stated: with 3 new transactions, status 'over' and remaining -500,
\* should_alert is true and the reasons are exactly the new-transaction and
\* the over-budget reason.
C16_ExactlyTwoReasons ==
    ThreeNewOverBy500 =>
        /\ out.should_alert
        /\ out.reasons = <<Reason("new transactions", 3), Reason("over budget", 0)>>

\* C16: with 3 new transactions, status 'over' and remaining -500,
\* should_alert is true, the reasons start with the new-transaction and the
\* over-budget reason and hold no low-remaining reason; they are exactly these
\* two iff no over-pace, end-of-month or new-month trigger holds.
C16_NewAndOverNotLowRemaining ==
    ThreeNewOverBy500 =>
        /\ out.should_alert
        /\ SubSeq(out.reasons, 1, 2)
               = <<Reason("new transactions", 3), Reason("over budget", 0)>>
        /\ ~HasReason("only $ remaining")
        /\ Len(out.reasons) = 2 <=>
               ~(OverPaceTrigger \/ MonthEndTrigger \/ MonthStartTrigger)

\* Such a check with exactly the two reasons.
C16_Witness ==
    /\ ThreeNewOverBy500
    /\ Len(out.reasons) = 2

C18_SecondCheckReportsNothingNew ==
    (Checked /\ clock >= 2) =>
        /\ out.new_transactions = 0
        /\ ~HasReason("new transactions")

\* C28: the reasons 'over budget' and 'only $N remaining' never appear in the
\* same list.
C28_OverAndRemainingExclusive ==
    Checked => ~(HasReason("over budget") /\ HasReason("only $ remaining"))

\* A check that reports 'only $400 remaining' of a budget it is not over, and
\* no 'over budget'.
C28_Witness ==
    /\ Checked
    /\ HasReason("only $ remaining")
    /\ ~HasReason("over budget")
    /\ out.remaining = 400000
    /\ out.spent = 7600000

\* ------------------------------------------ the recent command: properties

\* A recent has run: out holds its options and what it printed.
RecentRan == out.command = "recent"

\* today - N days, the start of the window.
WindowStart == MinusDays(today, out.days)

\* The places <<month, i>> of the stored transactions dated within the window.
StoredInWindow ==
    {p \in UNION {{<<m, i>> : i \in 1..Len(vault.ledgers[m].transactions)} :
                      m \in DOMAIN vault.ledgers} :
        vault.ledgers[p[1]].transactions[p[2]].date >= WindowStart}

\* What recent prints of the stored transaction at a place.
PrintedOf(p) == OutputOf(vault.ledgers[p[1]].transactions[p[2]])

\* How often an entry is stored within the window, and how often printed.
TimesStored(x) == Cardinality({p \in StoredInWindow : PrintedOf(p) = x})
TimesPrinted(x) ==
    Cardinality({i \in 1..Len(out.transactions) : out.transactions[i] = x})

\* The entries stored within the window or printed.
WindowEntries == {PrintedOf(p) : p \in StoredInWindow} \cup Range(out.transactions)

\* C20: recent --days N prints exactly the stored transactions dated on or
\* after today - N days, most recent first, cut to the first --count entries
\* when the option is given; when the window starts before the current month,
\* the transactions of the ledger of the month in which it starts are among
\* them.
C20_RecentPrintsTheWindow ==
    RecentRan =>
        LET printed == out.transactions
            n == Len(printed)
        IN  /\ \A i \in 1..(n - 1) : printed[i].date >= printed[i + 1].date
            /\ \A x \in WindowEntries : TimesPrinted(x) <= TimesStored(x)
            /\ ~out.count.given =>
                   \A x \in WindowEntries : TimesPrinted(x) = TimesStored(x)
            /\ out.count.given =>
                   /\ n = (IF out.count.n < Cardinality(StoredInWindow)
                           THEN out.count.n ELSE Cardinality(StoredInWindow))
                   /\ \A x \in WindowEntries :
                          (n > 0 /\ x.date > printed[n].date) =>
                              TimesPrinted(x) = TimesStored(x)
            /\ (WindowStart \div 100 < getCurrentMonth(today) /\ ~out.count.given) =>
                   \A p \in StoredInWindow :
                       p[1] = WindowStart \div 100 =>
                           PrintedOf(p) \in Range(printed)

\* ---------------------------------------- the legacy migration: properties

\* The transactions of a list dated within a calendar month, in their order.
WithinMonth(txs, month) == SelectSeq(txs, LAMBDA t : t.date \div 100 = month)

\* C21: getOrCreateCurrentMonthData imports the legacy log only when no ledger
\* of the current month is stored. A stored ledger is returned unchanged and
\* nothing is written; with none stored and a legacy log, the ledger of exactly
\* the legacy transactions dated within the current calendar month is saved
\* and returned, so that later calls return it; with neither, an empty ledger
\* of the current month is returned.
C21_MigrationOnlyWithoutLedger ==
    call.op = "getOrCreateCurrentMonthData" =>
        LET month == getCurrentMonth(today)
            before == call.before
            returned == call.returned
        IN  IF month \in DOMAIN before.ledgers
            THEN /\ returned = before.ledgers[month]
                 /\ vault = before
            ELSE IF before.transactions # Null
            THEN /\ returned.month = month
                 /\ returned.transactions =
                        WithinMonth(before.transactions.transactions, month)
                 /\ month \in DOMAIN vault.ledgers
                 /\ vault.ledgers[month] = returned
                 /\ vault.transactions = before.transactions
            ELSE /\ returned.month = month
                 /\ returned.transactions = <<>>
                 /\ vault = before

\* ---------------------------------- the commands on one directory: properties

Synced == call.op = "sync"

\* The last command was check, status or recent.
ReadOnlyCommandRan == call.op \in {"check", "status", "recent"}

\* C22: check, status and recent never add, remove or alter a transaction of a
\* stored monthly ledger, whatever is stored, an empty ledger of the current
\* month included; status and recent leave the stored ledgers as they are and
\* check changes last_check only.
C22_OnlySyncChangesTransactions ==
    ReadOnlyCommandRan =>
        \A m \in DOMAIN call.before.ledgers :
            /\ m \in DOMAIN vault.ledgers
            /\ vault.ledgers[m].transactions = call.before.ledgers[m].transactions
            /\ vault.ledgers[m].last_sync = call.before.ledgers[m].last_sync
            /\ call.op # "check" => vault.ledgers[m] = call.before.ledgers[m]

\* The ids that the posted transactions of the last sync's response replace.
ReplacedIds ==
    {t.pending_transaction_id :
        t \in {u \in Range(call.env.transactions) :
                  u.pending = "false" /\ u.pending_transaction_id # Undefined}}

\* C27: after a successful sync whose response holds a posted transaction with
\* pending_transaction_id = X, no stored ledger of any month holds the id X.
C27_ReplacedPendingStoredNowhere ==
    (Synced /\ call.exit = 0) =>
        \A m \in DOMAIN vault.ledgers :
            IdsOf(vault.ledgers[m].transactions) \cap ReplacedIds = {}

\* An optional field holds a value: its text is not the text of Undefined.
Present(v) == ToString(v) # ToString(Undefined)

AbortsBeforeMerging ==
    LET config == call.before.config
    IN  \/ config = Null
        \/ (/\ "items" \in DOMAIN config.plaid
            /\ config.plaid.items = <<>>)
        \/ (/\ "items" \notin DOMAIN config.plaid
            /\ "access_token" \notin DOMAIN config.plaid)
        \/ ~call.env.token
        \/ ~call.env.ok

\* C30: a sync that aborts before merging ends with an error exit and writes no
\* monthly ledger, no summary and no sync result.
C30_AbortWritesNothing ==
    (Synced /\ AbortsBeforeMerging) =>
        /\ call.exit = 1
        /\ vault.ledgers = call.before.ledgers
        /\ vault.summary = call.before.summary
        /\ vault.sync_result = call.before.sync_result

\* A sync whose fetch failed, on a directory with a linked item, a stored
\* ledger and the summary and the sync result of an earlier sync.
C30_Witness ==
    /\ Synced
    /\ call.before.config # Null
    /\ "items" \in DOMAIN call.before.config.plaid
    /\ call.before.config.plaid.items # <<>>
    /\ call.env.token
    /\ ~call.env.ok
    /\ call.exit = 1
    /\ DOMAIN call.before.ledgers # {}
    /\ call.before.summary # Null
    /\ call.before.sync_result # Null

\* The last command was check or status: the commands that report the pace.
PaceReported == call.op \in {"check", "status"}

\* The calendar month before a month: December of the year before for January.
MonthBefore(month) ==
    IF month % 100 = 1 THEN month - 100 + 11 ELSE month - 1

\* The amounts of a ledger's transactions dated up to a day of its month.
RECURSIVE SpentThrough(_, _)
SpentThrough(txs, day) ==
    IF txs = <<>> THEN 0
    ELSE (IF Head(txs).date % 100 <= day THEN Head(txs).amount ELSE 0)
         + SpentThrough(Tail(txs), day)

\* C24: check and status take the pace baseline from the ledger of the calendar
\* month before the current one (December of the year before in January): the
\* source is the linear ramp exactly when no ledger of that month is stored,
\* and otherwise last month's curve, with the expected spend read from that
\* ledger's cumulative curve at today's day, or at its last day when the month
\* is shorter.
C24_BaselineFromMonthBefore ==
    PaceReported =>
        LET month == today \div 100
            prev == MonthBefore(month)
            stored == prev \in DOMAIN call.before.ledgers
            day == today % 100
        IN  /\ vault.summary.pace.source = "linear" <=> ~stored
            /\ stored =>
                  /\ vault.summary.pace.source = "last_month"
                  /\ vault.summary.pace.expected =
                         Round2(SpentThrough(call.before.ledgers[prev].transactions,
                                             day))

\* A check or a status in January with December's ledger stored, and one on
\* the 30th of March with February's: the baseline is what December had spent
\* by the 5th, and all of February.
C24_Witness ==
    /\ PaceReported
    /\ MonthBefore(today \div 100) \in DOMAIN call.before.ledgers
    /\ vault.summary.pace.source = "last_month"
    /\ \/ today = DateStr(2026, 1, 5) /\ vault.summary.pace.expected = 47500
       \/ today = DateStr(2026, 3, 30) /\ vault.summary.pace.expected = 6047500

\* --------------------------------------- overlapping invocations: properties

\* Both invocations have finished.
BothDone == running # <<>> /\ \A i \in 1..2 : running[i].pc = "done"

\* The invocations that wrote the month's file, and the one that wrote last.
Writers == {i \in 1..2 : running[i].wroteAt > 0}
IsLastWriter(w) ==
    w \in Writers /\ \A i \in Writers : running[i].wroteAt <= running[w].wroteAt

\* The ids an invocation put into the file that were not in what it read.
MergedBy(i) ==
    IdsOf(running[i].written.transactions)
        \ (IF running[i].data = Null THEN {}
           ELSE IdsOf(running[i].data.transactions))

\* The ids the last writer had before it: those it read and those it fetched.
KnownTo(w) ==
    (IF running[w].data = Null THEN {} ELSE IdsOf(running[w].data.transactions))
        \cup IdsOf(running[w].batch)

\* C25: a save replaces the whole ledger and the last writer wins. When two
\* invocations overlap on one month, the ledger stored after both finish is the
\* ledger the last writer wrote, and what the other one merged after the last
\* writer's read is not in it.
C25_LastWriterWins ==
    BothDone =>
        \A w \in 1..2 :
            IsLastWriter(w) =>
                /\ vault.ledgers[LedgerMonth] = running[w].written
                /\ \A o \in Writers \ {w} :
                       running[o].wroteAt > running[w].readAt =>
                           \A id \in MergedBy(o) \ KnownTo(w) :
                               id \notin IdsOf(vault.ledgers[LedgerMonth].transactions)

\* A sync merged tx3 and tx5 between the read and the write of a check: the
\* check wrote last, and the stored ledger holds neither.
C25_Witness ==
    /\ BothDone
    /\ running[2].kind = "check"
    /\ IsLastWriter(2)
    /\ running[1].wroteAt > running[2].readAt
    /\ {"tx3", "tx5"} \subseteq MergedBy(1)
    /\ IdsOf(vault.ledgers[LedgerMonth].transactions) = {"tx1"}

====
